---- MODULE Spec2Model ----
(***************************************************************************)
(* Render-job pipeline and output-artifact store of remotion-mcp-server.   *)
(*                                                                         *)
(*   UrlHandler      src/src/output/urlHandler.ts  (local artifact store)  *)
(*   RenderEngine    src/src/render/engine.ts      (render job)            *)
(*   DynamicBundler  src/src/render/engine.ts      (bundle cache)          *)
(*   StorageHandler  src/src/output/storageHandler.ts  (remote store)      *)
(*   RemotionMcpServer  src/src/server.ts          (tool calls)            *)
(*                                                                         *)
(* Node runs one callback at a time: the code between two awaits of an     *)
(* async function is one atomic action.  An action of this module is one   *)
(* such segment, ending where the function awaits file-system or backend   *)
(* I/O (or settles).                                                       *)
(***************************************************************************)
EXTENDS Integers, Sequences, FiniteSets, TLC

(***************************************************************************)
(* Bounds of the model.                                                    *)
(***************************************************************************)
\* store() calls of a run in which the calls follow one another
MaxStores == 3
\* store() calls of a run in which the calls overlap
MaxConcStores == 2
\* clock advances of a run
MaxTicks == 2
\* store() calls of a run that ends with shutdown()
MaxLifeStores == 2

\* urlHandler.ts:142  expiresAt: now + ttlSeconds * 1000
MsPerSecond == 1000

\* store() requests that may be in flight together, and the sweep timer
Callers == {"s1", "s2"}
Timer == "timer"
Boot == "boot"
Procs == Callers \cup {Timer, Boot}

\* files that may lie in the serve directory when the process starts
PreExisting == {-1, -2}

\* configurations (index.ts:96-98 reads any integer from the environment)
MaxFilesChoices == {0, 1, 2}
MaxDiskChoices == {1, 3}
TtlChoices == {0, 1}

\* FileData handed to store(): buffer length and MIME type
Inputs ==
  { [size |-> 1, mimeType |-> "video/mp4"],
    [size |-> 2, mimeType |-> "image/png"] }

VARIABLES
  cfg,      \* UrlHandler.config: maxDiskBytes, maxFiles, ttlSeconds
  ready,    \* UrlHandler.ready
  files,    \* UrlHandler.files: the Map's entries in insertion order
  disk,     \* ids whose file exists in serveDir
  now,      \* Date.now()
  nextId,   \* the next fresh randomUUID()
  st,       \* per in-flight store() / cleanup(): position and locals
  out,      \* what the action just taken answered: the HTTP response of
            \* GET /files, or what a store() call settled with
  issued,   \* per id, the FileEntry store() created for it (history)
  env       \* the run: how many store() calls and clock advances it makes,
            \* and whether a file-system call may fail

storeVars == <<cfg, ready, files, disk, now, nextId, st, out, issued, env>>

VARIABLES
  engine,       \* RenderEngine.renderer, DynamicBundler.bundler: loaded or null
  bundleCache,  \* DynamicBundler.bundleCache: cache key -> bundle path
  bundleDirs,   \* per cache key, what bundle-<key> in cacheDir holds
  projDirs,     \* the bundle() calls whose project-<uuid> directory exists
  workDirs,     \* the render calls whose working directory exists
  outputs,      \* per render call, the content of its output file
  job,          \* per render call: position, locals and what it settled with
  bundled       \* per source, the path bundle() returned for it, while the
                \* directory at that path has been on disk ever since

renderVars ==
  <<engine, bundleCache, bundleDirs, projDirs, workDirs, outputs, job, bundled>>

VARIABLES
  mode,     \* config.outputMode: which OutputHandler createOutputHandler made
  sconf,    \* StorageHandler.config: endpoint, apiKey
  sh,       \* StorageHandler: client (set or null), ready, error
  sst,      \* per in-flight StorageHandler.initialize() / store(): position
  sent,     \* the requests sent to the storage service, by JSON-RPC method
  rout      \* what the StorageHandler action just taken settled with

remoteVars == <<mode, sconf, sh, sst, sent, rout>>

VARIABLE
  tool      \* RemotionMcpServer: the position of run() up to the connection
            \* of the transport, then the CallTool request being handled:
            \* position, and the result the handler answered with

VARIABLE
  tm        \* TemplateManager: the templates Map, the template files in
            \* templatesDir, and each create() call's position and result

vars == <<storeVars, renderVars, remoteVars, tool, tm>>

(***************************************************************************)
(* UrlHandler: pure parts                                                  *)
(***************************************************************************)
NoEntry == [id |-> 0]
NotIssued == [id |-> 0]

\* getExtension(mimeType)
GetExtension(mimeType) ==
  CASE mimeType = "video/mp4" -> ".mp4"
    [] mimeType = "video/webm" -> ".webm"
    [] mimeType = "image/gif" -> ".gif"
    [] mimeType = "image/png" -> ".png"
    [] mimeType = "image/jpeg" -> ".jpg"
    [] OTHER -> ".bin"

\* filename = `${id}${ext}`
FilenameOf(id, mimeType) == <<id, GetExtension(mimeType)>>

\* randomBytes(16).toString('hex'): a fresh token per call
TokenOf(id) == <<"token", id>>

Ids(fs) == {fs[i].id : i \in 1..Len(fs)}

\* this.files.get(id)
GetEntry(fs, id) ==
  IF id \in Ids(fs) THEN fs[CHOOSE i \in 1..Len(fs) : fs[i].id = id] ELSE NoEntry

\* this.files.delete(id)
DeleteEntry(fs, id) == SelectSeq(fs, LAMBDA e : e.id # id)

\* Array.from(this.files.values()).reduce((sum, f) => sum + f.size, 0)
RECURSIVE TotalSize(_)
TotalSize(fs) == IF fs = <<>> THEN 0 ELSE Head(fs).size + TotalSize(Tail(fs))

\* Array.from(this.files.values()).find((f) => f.filename === filename)
RECURSIVE FindByFilename(_, _)
FindByFilename(fs, filename) ==
  IF fs = <<>> THEN NoEntry
  ELSE IF Head(fs).filename = filename THEN Head(fs)
  ELSE FindByFilename(Tail(fs), filename)

\* findLRU(): the loop over this.files.values(), lru replaced on a strictly
\* smaller lastAccessedAt
RECURSIVE FindLRULast(_, _)
FindLRULast(fs, lru) ==
  IF fs = <<>> THEN lru
  ELSE IF lru = NoEntry \/ Head(fs).lastAccessedAt <= lru.lastAccessedAt
       THEN FindLRULast(Tail(fs), Head(fs))
       ELSE FindLRULast(Tail(fs), lru)

RECURSIVE FindLRUFrom(_, _)
FindLRUFrom(fs, lru) ==
  IF fs = <<>> THEN lru
  ELSE IF lru = NoEntry \/ Head(fs).lastAccessedAt < lru.lastAccessedAt
       THEN FindLRUFrom(Tail(fs), Head(fs))
       ELSE FindLRUFrom(Tail(fs), lru)

FindLRU(fs) == FindLRUFrom(fs, NoEntry)

\* Expired with a second of grace after expiresAt
ExpiredAfterGrace(fs, t) ==
  LET late == SelectSeq(fs, LAMBDA e : t > e.expiresAt + MsPerSecond) IN
  [i \in 1..Len(late) |-> late[i].id]

\* Expired with now >= entry.expiresAt
ExpiredInclusive(fs, t) ==
  LET due == SelectSeq(fs, LAMBDA e : t >= e.expiresAt) IN
  [i \in 1..Len(due) |-> due[i].id]

\* cleanup(): the ids with now > entry.expiresAt, in table order
RECURSIVE Expired(_, _)
Expired(fs, t) ==
  IF fs = <<>> THEN <<>>
  ELSE IF t > Head(fs).expiresAt
       THEN <<Head(fs).id>> \o Expired(Tail(fs), t)
       ELSE Expired(Tail(fs), t)

\* cleanup()'s for loop: removeFile(id) returns at once for an id that is no
\* longer in the table, and awaits fs.unlink for the first one that is
RECURSIVE SkipGone(_, _)
SkipGone(queue, fs) ==
  IF queue = <<>> THEN <<>>
  ELSE IF Head(queue) \in Ids(fs) THEN queue
  ELSE SkipGone(Tail(queue), fs)

\* GET /files/:filename?token= : the status the handler decides
RetrievalStatusNoExpiry(fs, t, filename, token) ==
  LET entry == FindByFilename(fs, filename) IN
  IF entry = NoEntry THEN 404
  ELSE IF entry.token # token THEN 403
  ELSE 200

RetrievalStatusExpiryFirst(fs, t, filename, token) ==
  LET entry == FindByFilename(fs, filename) IN
  IF entry = NoEntry THEN 404
  ELSE IF t > entry.expiresAt THEN 410
  ELSE IF entry.token # token THEN 403
  ELSE 200

RetrievalStatusClosed(fs, t, filename, token) ==
  LET entry == FindByFilename(fs, filename) IN
  IF entry = NoEntry THEN 404
  ELSE IF entry.token # token THEN 403
  ELSE IF t >= entry.expiresAt THEN 410
  ELSE 200

RetrievalStatus(fs, t, filename, token) ==
  LET entry == FindByFilename(fs, filename) IN
  IF entry = NoEntry THEN 404
  ELSE IF entry.token # token THEN 403
  ELSE IF t > entry.expiresAt THEN 410
  ELSE 200

(***************************************************************************)
(* loadConfig: integers read from the environment                          *)
(***************************************************************************)
Digits == "0123456789"

IsDigit(c) == \E i \in 1..Len(Digits) : SubSeq(Digits, i, i) = c

DigitValue(c) == (CHOOSE i \in 1..Len(Digits) : SubSeq(Digits, i, i) = c) - 1

\* the leading digits of str read as a decimal number, from the value acc
RECURSIVE ParseDigits(_, _)
ParseDigits(str, acc) ==
  IF str = "" \/ ~IsDigit(SubSeq(str, 1, 1)) THEN acc
  ELSE ParseDigits(SubSeq(str, 2, Len(str)),
                   10 * acc + DigitValue(SubSeq(str, 1, 1)))

\* parseInt(value, 10): an optional sign, then the leading digits; NaN when
\* there is no digit
ParseInt(str) ==
  LET negative == str # "" /\ SubSeq(str, 1, 1) = "-"
      signed == str # "" /\ SubSeq(str, 1, 1) \in {"-", "+"}
      rest == IF signed THEN SubSeq(str, 2, Len(str)) ELSE str
  IN IF rest = "" \/ ~IsDigit(SubSeq(rest, 1, 1))
     THEN [nan |-> TRUE, value |-> 0]
     ELSE [nan |-> FALSE,
           value |-> IF negative THEN 0 - ParseDigits(rest, 0)
                     ELSE ParseDigits(rest, 0)]

\* getEnvInt(key, defaultValue), value being process.env[key], "" when unset
GetEnvInt(value, defaultValue) ==
  IF value = "" THEN defaultValue
  ELSE IF ParseInt(value).nan THEN defaultValue ELSE ParseInt(value).value

\* values of URL_TTL_SECONDS
EnvValues == {"", "0", "1", "60", "-1", "1h", "soon"}

DefaultTtlSeconds == 3600

\* the ttlSeconds loadConfig can produce from them
LoadableTtls == {GetEnvInt(v, DefaultTtlSeconds) : v \in EnvValues}

(***************************************************************************)
(* UrlHandler: the positions of an in-flight store() or cleanup()          *)
(***************************************************************************)
Idle == [pc |-> "idle"]

NoOut == [kind |-> "none"]

NoFile == [size |-> 0, mimeType |-> "none"]

InFlight(p) == st[p].pc # "idle"

\* initialize() resolved from the callback of app.listen: the server
\* listens and the sweep interval is set
Serving == [pc |-> "done", interval |-> TRUE, server |-> "listening"]

\* this.cleanupInterval is set
IntervalSet == st[Boot].pc = "done" /\ st[Boot].interval

\* the HTTP server accepts requests
Accepting == st[Boot].pc = "done" /\ st[Boot].server = "listening"

\* what store() settles with
StoreOut(p, result, id) ==
  [kind |-> "store", call |-> p, result |-> result, id |-> id]

\* removeFile(id) up to its await fs.unlink, id the head of the queue;
\* file is the FileData of the store() that runs the sweep (NoFile: the timer)
Sweeping(queue, file) ==
  [pc |-> "sweep_unlink", queue |-> queue, file |-> file]

\* await this.cleanup() has resolved
Swept(file) == [pc |-> "swept", file |-> file]

\* store() once enforceQuotas has returned: id, token, filename, then
\* await fs.writeFile
Writing(file) == [pc |-> "writing", file |-> file, id |-> nextId]

\* CountLoop that evicts as soon as the table is one entry short of maxFiles
CountLoopEager(fs, file) ==
  IF Len(fs) + 1 >= cfg.maxFiles /\ FindLRU(fs) # NoEntry
  THEN [pc |-> "count_unlink", file |-> file, lru |-> FindLRU(fs)]
  ELSE Writing(file)

\* CountLoop without the break for a table that has no entry to evict
CountLoopNoBreak(fs, file) ==
  IF Len(fs) >= cfg.maxFiles
  THEN [pc |-> "count_unlink", file |-> file, lru |-> FindLRU(fs)]
  ELSE Writing(file)

\* enforceQuotas(): the second while loop, up to its next await
CountLoop(fs, file) ==
  IF Len(fs) >= cfg.maxFiles /\ FindLRU(fs) # NoEntry
  THEN [pc |-> "count_unlink", file |-> file, lru |-> FindLRU(fs)]
  ELSE Writing(file)

\* enforceQuotas(): the first while loop, up to its next await
DiskLoop(fs, file, currentSize) ==
  IF currentSize + file.size > cfg.maxDiskBytes /\ Len(fs) > 0
       /\ FindLRU(fs) # NoEntry
  THEN [pc |-> "disk_unlink", file |-> file, currentSize |-> currentSize,
        lru |-> FindLRU(fs)]
  ELSE CountLoop(fs, file)

\* enforceQuotas() after await this.cleanup(): the size check, then the loops
TooLarge(file) == file.size > cfg.maxDiskBytes

\* AfterCleanup with the size check left to after the eviction loops
AfterCleanupLate(fs, file) == DiskLoop(fs, file, TotalSize(fs))

AfterCleanup(fs, file) ==
  IF TooLarge(file) THEN Idle ELSE DiskLoop(fs, file, TotalSize(fs))

\* cleanup() from the start of its second loop, with the expired ids left
SweepFrom(queue, fs, file, done) ==
  IF SkipGone(queue, fs) = <<>> THEN done
  ELSE Sweeping(SkipGone(queue, fs), file)

\* try { await fs.unlink(entry.filepath) } catch { }: the file is gone, or
\* the unlink failed and it is still there
UnlinkOutcomes(id) == IF env.faults THEN {disk \ {id}, disk} ELSE {disk \ {id}}

\* randomUUID() is drawn when store() reaches the write
IdsAfter(p) ==
  IF st'[p].pc = "writing" /\ st[p].pc # "writing" THEN nextId + 1 ELSE nextId

(***************************************************************************)
(* UrlHandler: actions                                                     *)
(***************************************************************************)
\* the orders in which readdir may list the names in dir
Orders(dir) ==
  {q \in [1..Cardinality(dir) -> dir] : \A i, j \in DOMAIN q : i # j => q[i] # q[j]}

\* initialize(): the wipe loop up to its next await, then app.listen
WipeFrom(queue) ==
  IF queue = <<>> THEN [pc |-> "listen"] ELSE [pc |-> "wipe", queue |-> queue]

\* Initialize with ready set as soon as initialize() is called
InitializeEager ==
  /\ st[Boot].pc = "idle"
  /\ st' = [st EXCEPT ![Boot] = [pc |-> "mkdir"]]
  /\ ready' = TRUE
  /\ out' = NoOut
  /\ UNCHANGED <<cfg, files, disk, now, nextId, issued, env, renderVars, remoteVars>>

\* initialize() up to await fs.mkdir(serveDir)
Initialize ==
  /\ st[Boot].pc = "idle"
  /\ st' = [st EXCEPT ![Boot] = [pc |-> "mkdir"]]
  /\ out' = NoOut
  /\ UNCHANGED <<cfg, ready, files, disk, now, nextId, issued, env, renderVars, remoteVars>>

\* initialize() after await fs.mkdir: readdir started, or the error thrown
ServeDirMade ==
  /\ st[Boot].pc = "mkdir"
  /\ \/ st' = [st EXCEPT ![Boot] = [pc |-> "readdir"]]
     \/ env.faults /\ st' = [st EXCEPT ![Boot] = [pc |-> "failed"]]
  /\ out' = NoOut
  /\ UNCHANGED <<cfg, ready, files, disk, now, nextId, issued, env, renderVars, remoteVars>>

\* initialize() after await fs.readdir: the first unlink started; a readdir
\* error is caught and ignored
ServeDirRead ==
  /\ st[Boot].pc = "readdir"
  /\ \/ \E queue \in Orders(disk) : st' = [st EXCEPT ![Boot] = WipeFrom(queue)]
     \/ env.faults /\ st' = [st EXCEPT ![Boot] = [pc |-> "listen"]]
  /\ out' = NoOut
  /\ UNCHANGED <<cfg, ready, files, disk, now, nextId, issued, env, renderVars, remoteVars>>

\* initialize() after await fs.unlink of a pre-existing file: the next one;
\* an unlink error ends the loop, caught and ignored
WipeUnlinkDone ==
  /\ st[Boot].pc = "wipe"
  /\ \/ /\ disk' = disk \ {Head(st[Boot].queue)}
        /\ st' = [st EXCEPT ![Boot] = WipeFrom(Tail(st[Boot].queue))]
     \/ /\ env.faults
        /\ st' = [st EXCEPT ![Boot] = [pc |-> "listen"]]
        /\ UNCHANGED disk
  /\ out' = NoOut
  /\ UNCHANGED <<cfg, ready, files, now, nextId, issued, env, renderVars, remoteVars>>

\* app.listen's callback: ready set, the sweep timer armed, initialize()
\* resolved; or the server's 'error' event: initialize() rejected
Listening ==
  /\ st[Boot].pc = "listen"
  /\ \/ /\ ready' = TRUE
        /\ st' = [st EXCEPT ![Boot] = Serving]
     \/ /\ env.faults
        /\ st' = [st EXCEPT ![Boot] = [pc |-> "failed"]]
        /\ UNCHANGED ready
  /\ out' = NoOut
  /\ UNCHANGED <<cfg, files, disk, now, nextId, issued, env, renderVars, remoteVars>>

\* Shutdown with the interval left running
ShutdownKeepsTimer ==
  /\ Accepting
  /\ st' = [st EXCEPT ![Boot] = [@ EXCEPT !.server = "closing"]]
  /\ out' = NoOut
  /\ UNCHANGED <<cfg, ready, files, disk, now, nextId, issued, env, renderVars, remoteVars>>

\* shutdown() up to the callback of server.close(): the interval cleared,
\* the server told to close
Shutdown ==
  /\ Accepting
  /\ st' = [st EXCEPT ![Boot] =
              [@ EXCEPT !.interval = FALSE, !.server = "closing"]]
  /\ out' = NoOut
  /\ UNCHANGED <<cfg, ready, files, disk, now, nextId, issued, env, renderVars, remoteVars>>

\* the callback of server.close(): shutdown() resolves
ShutdownDone ==
  /\ st[Boot].pc = "done"
  /\ st[Boot].server = "closing"
  /\ st' = [st EXCEPT ![Boot] = [@ EXCEPT !.server = "closed"]]
  /\ out' = NoOut
  /\ UNCHANGED <<cfg, ready, files, disk, now, nextId, issued, env, renderVars, remoteVars>>

\* store(file) up to its first await
StoreCall(p, file) ==
  /\ ~InFlight(p)
  /\ nextId + Cardinality({q \in Callers : InFlight(q)}) <= env.stores
  /\ IF ~ready
     THEN /\ out' = StoreOut(p, "not_ready", 0)
          /\ UNCHANGED st
     ELSE /\ out' = NoOut
          /\ st' = [st EXCEPT ![p] =
                      SweepFrom(Expired(files, now), files, file, Swept(file))]
  /\ UNCHANGED <<cfg, ready, files, disk, now, nextId, issued, env, renderVars, remoteVars>>

\* the sweep timer fires: cleanup() up to its first await
TimerFire ==
  /\ IntervalSet
  /\ ~InFlight(Timer)
  /\ st' = [st EXCEPT ![Timer] =
              SweepFrom(Expired(files, now), files, NoFile, Idle)]
  /\ out' = NoOut
  /\ UNCHANGED <<cfg, ready, files, disk, now, nextId, issued, env, renderVars, remoteVars>>

\* removeFile() after its await, inside cleanup(): the entry deleted, then
\* the next expired id
SweepUnlinkDone(p) ==
  /\ st[p].pc = "sweep_unlink"
  /\ LET id == Head(st[p].queue) IN
     /\ disk' \in UnlinkOutcomes(id)
     /\ files' = DeleteEntry(files, id)
     /\ st' = [st EXCEPT ![p] =
                 SweepFrom(Tail(st[p].queue), files', st[p].file,
                           IF p = Timer THEN Idle ELSE Swept(st[p].file))]
  /\ out' = NoOut
  /\ UNCHANGED <<cfg, ready, now, nextId, issued, env, renderVars, remoteVars>>

\* enforceQuotas() after await this.cleanup()
EnforceQuotas(p) ==
  /\ st[p].pc = "swept"
  /\ st' = [st EXCEPT ![p] = AfterCleanup(files, st[p].file)]
  /\ out' = IF TooLarge(st[p].file) THEN StoreOut(p, "too_large", 0) ELSE NoOut
  /\ nextId' = IdsAfter(p)
  /\ UNCHANGED <<cfg, ready, files, disk, now, issued, env, renderVars, remoteVars>>

\* removeFile() after its await, inside the disk-size loop
DiskUnlinkDone(p) ==
  /\ st[p].pc = "disk_unlink"
  /\ disk' \in UnlinkOutcomes(st[p].lru.id)
  /\ files' = DeleteEntry(files, st[p].lru.id)
  /\ st' = [st EXCEPT ![p] =
              DiskLoop(files', st[p].file, st[p].currentSize - st[p].lru.size)]
  /\ out' = NoOut
  /\ nextId' = IdsAfter(p)
  /\ UNCHANGED <<cfg, ready, now, issued, env, renderVars, remoteVars>>

\* removeFile() after its await, inside the file-count loop
CountUnlinkDone(p) ==
  /\ st[p].pc = "count_unlink"
  /\ disk' \in UnlinkOutcomes(st[p].lru.id)
  /\ files' = DeleteEntry(files, st[p].lru.id)
  /\ st' = [st EXCEPT ![p] = CountLoop(files', st[p].file)]
  /\ out' = NoOut
  /\ nextId' = IdsAfter(p)
  /\ UNCHANGED <<cfg, ready, now, issued, env, renderVars, remoteVars>>

\* the FileEntry store() builds after the write
NewEntry(id, file, t) ==
  [id |-> id,
   filename |-> FilenameOf(id, file.mimeType),
   token |-> TokenOf(id),
   mimeType |-> file.mimeType,
   size |-> file.size,
   createdAt |-> t,
   expiresAt |-> t + cfg.ttlSeconds * MsPerSecond,
   lastAccessedAt |-> t]

\* WriteDone that inserts the entry before it looks at the write's outcome
WriteDoneInsertFirst(p) ==
  /\ st[p].pc = "writing"
  /\ files' = Append(files, NewEntry(st[p].id, st[p].file, now))
  /\ \/ /\ disk' = disk \cup {st[p].id}
        /\ issued' = [issued EXCEPT ![st[p].id] =
                        NewEntry(st[p].id, st[p].file, now)]
        /\ out' = StoreOut(p, "ok", st[p].id)
     \/ /\ env.faults
        /\ out' = StoreOut(p, "write_failed", 0)
        /\ UNCHANGED <<disk, issued>>
  /\ st' = [st EXCEPT ![p] = Idle]
  /\ UNCHANGED <<cfg, ready, now, nextId, env, renderVars, remoteVars>>

\* store() after await fs.writeFile: the entry inserted and the URL returned,
\* or the write's error thrown
WriteDone(p) ==
  /\ st[p].pc = "writing"
  /\ \/ /\ disk' = disk \cup {st[p].id}
        /\ files' = Append(files, NewEntry(st[p].id, st[p].file, now))
        /\ issued' = [issued EXCEPT ![st[p].id] =
                        NewEntry(st[p].id, st[p].file, now)]
        /\ out' = StoreOut(p, "ok", st[p].id)
     \/ /\ env.faults
        /\ out' = StoreOut(p, "write_failed", 0)
        /\ UNCHANGED <<disk, files, issued>>
  /\ st' = [st EXCEPT ![p] = Idle]
  /\ UNCHANGED <<cfg, ready, now, nextId, env, renderVars, remoteVars>>

\* the id whose file the removeFile() call of p is unlinking
UnlinkTarget(p) ==
  IF st[p].pc = "sweep_unlink" THEN Head(st[p].queue) ELSE st[p].lru.id

\* the fs.unlink that removeFile() awaits takes effect: the file is gone
\* from serveDir while removeFile()'s continuation, which deletes the
\* entry, has not run yet
UnlinkSettles(p) ==
  /\ st[p].pc \in {"sweep_unlink", "disk_unlink", "count_unlink"}
  /\ UnlinkTarget(p) \in disk
  /\ disk' = disk \ {UnlinkTarget(p)}
  /\ out' = NoOut
  /\ UNCHANGED <<cfg, ready, files, now, nextId, st, issued, env, renderVars, remoteVars>>

\* the fs.writeFile that store() awaits takes effect: the file is in
\* serveDir while store()'s continuation has not run yet
WriteSettles(p) ==
  /\ st[p].pc = "writing"
  /\ st[p].id \notin disk
  /\ disk' = disk \cup {st[p].id}
  /\ out' = NoOut
  /\ UNCHANGED <<cfg, ready, files, now, nextId, st, issued, env, renderVars, remoteVars>>

\* the requests of the model: the filename of an issued URL or an unknown
\* one, with that URL's token or another
UnknownFilename == <<0, ".bin">>

RequestFilenames ==
  {issued[i].filename : i \in {j \in DOMAIN issued : issued[j] # NotIssued}}
    \cup {UnknownFilename}

RequestTokens(filename) == {TokenOf(filename[1]), TokenOf(0)}

\* Retrieve that records the access before it checks token and expiry
RetrieveTouching(filename, token) ==
  /\ Accepting
  /\ LET status == RetrievalStatus(files, now, filename, token)
         entry == FindByFilename(files, filename) IN
     /\ files' = IF status # 404
                 THEN [i \in 1..Len(files) |->
                         IF files[i].id = entry.id
                         THEN [files[i] EXCEPT !.lastAccessedAt = now]
                         ELSE files[i]]
                 ELSE files
     /\ out' = [kind |-> "http", filename |-> filename, token |-> token,
                status |-> status,
                contentType |-> IF status = 200 THEN entry.mimeType
                                ELSE "application/json"]
  /\ UNCHANGED <<cfg, ready, disk, now, nextId, st, issued, env, renderVars, remoteVars>>

\* GET /files/:filename?token=
Retrieve(filename, token) ==
  /\ Accepting
  /\ LET status == RetrievalStatus(files, now, filename, token)
         entry == FindByFilename(files, filename) IN
     /\ files' = IF status = 200
                 THEN [i \in 1..Len(files) |->
                         IF files[i].id = entry.id
                         THEN [files[i] EXCEPT !.lastAccessedAt = now]
                         ELSE files[i]]
                 ELSE files
     /\ out' = [kind |-> "http", filename |-> filename, token |-> token,
                status |-> status,
                contentType |-> IF status = 200 THEN entry.mimeType
                                ELSE "application/json"]
  /\ UNCHANGED <<cfg, ready, disk, now, nextId, st, issued, env, renderVars, remoteVars>>

\* time passes
Tick ==
  /\ now < env.ticks * MsPerSecond
  /\ now' = now + MsPerSecond
  /\ out' = NoOut
  /\ UNCHANGED <<cfg, ready, files, disk, nextId, st, issued, env, renderVars, remoteVars>>

(***************************************************************************)
(* DynamicBundler: cache key                                               *)
(***************************************************************************)
\* a 32-bit word as its two 16-bit halves
Half == 65536

\* hashCode()'s loop: hash = ((hash << 5) - hash) + char; hash = hash & hash,
\* that is 31 * hash + char modulo 2^32
RECURSIVE HashFrom(_, _)
HashFrom(str, hash) ==
  IF str = <<>> THEN hash
  ELSE LET lo == 31 * hash.lo + Head(str)
           hi == 31 * hash.hi + (lo \div Half)
       IN HashFrom(Tail(str), [hi |-> hi % Half, lo |-> lo % Half])

\* Math.abs of the word read as a signed 32-bit integer
Abs32(w) ==
  IF w.hi < Half \div 2 THEN w
  ELSE IF w.lo = 0 THEN [hi |-> Half - w.hi, lo |-> 0]
  ELSE [hi |-> Half - 1 - w.hi, lo |-> Half - w.lo]

HexDigit(n) == SubSeq("0123456789abcdef", n + 1, n + 1)

\* Number.prototype.toString(16)
RECURSIVE ToHex(_)
ToHex(n) == IF n < 16 THEN HexDigit(n) ELSE ToHex(n \div 16) \o HexDigit(n % 16)

Pad4(str) == SubSeq("000", 1, 4 - Len(str)) \o str

\* hashCode(str)
HashCode(str) ==
  LET w == Abs32(HashFrom(str, [hi |-> 0, lo |-> 0])) IN
  IF w.hi = 0 THEN ToHex(w.lo) ELSE ToHex(w.hi) \o Pad4(ToHex(w.lo))

\* cacheKey = `${templateName}-${this.hashCode(templateCode)}`
CacheKey(templateName, templateCode) == <<templateName, HashCode(templateCode)>>

\* bundleDir = path.join(this.cacheDir, `bundle-${cacheKey}`), which the
\* backend's bundle() returns as the bundle path
BundleDir(cacheKey) == <<"bundle", cacheKey>>

(***************************************************************************)
(* RenderEngine and DynamicBundler: a render call                          *)
(***************************************************************************)
\* a Scene of RenderVideoParams.scenes
Scene(type, duration) == [type |-> type, duration |-> duration]

\* an optional field of settings that is not given: undefined, as a number
\* and as a string no request carries
Undefined == -1

UndefinedStr == "undefined"

\* RenderVideoParams.settings with no field given
NoSettings ==
  [width |-> Undefined, height |-> Undefined, fps |-> Undefined,
   format |-> UndefinedStr]

SceneLists ==
  {<<>>, <<Scene("title", 2)>>, <<Scene("title", 1), Scene("text", 1)>>}

\* no field given; fps given, width given as 0 and format as the empty
\* string, height left out; every field given
SettingsChoices ==
  {NoSettings,
   [width |-> 0, height |-> Undefined, fps |-> 24, format |-> ""],
   [width |-> 640, height |-> 360, fps |-> 24, format |-> "webm"]}

\* the params argument of renderVideo
VideoParams == [scenes : SceneLists, settings : SettingsChoices]

DefaultParams == [scenes |-> <<Scene("title", 2)>>, settings |-> NoSettings]

NoParams == [scenes |-> <<>>, settings |-> NoSettings]

\* a || b on numbers and on strings
OrElse(a, b) == IF a = Undefined \/ a = 0 THEN b ELSE a

OrElseStr(a, b) == IF a = UndefinedStr \/ a = "" THEN b ELSE a

\* params.scenes.reduce((sum, s) => sum + s.duration, 0)
RECURSIVE TotalDuration(_)
TotalDuration(scenes) ==
  IF scenes = <<>> THEN 0
  ELSE Head(scenes).duration + TotalDuration(Tail(scenes))

\* getMimeType(format)
GetMimeType(format) ==
  IF format = "webm" THEN "video/webm"
  ELSE IF format = "gif" THEN "image/gif" ELSE "video/mp4"

\* renderVideo's defaults
DefaultWidth == 1920
DefaultHeight == 1080
DefaultFps == 30

\* the metadata renderVideo returns
MetadataOf(params) ==
  [duration |-> TotalDuration(params.scenes),
   width |-> OrElse(params.settings.width, DefaultWidth),
   height |-> OrElse(params.settings.height, DefaultHeight),
   fps |-> OrElse(params.settings.fps, DefaultFps)]

\* the strings of a list joined with commas
RECURSIVE Join(_)
Join(strs) ==
  IF strs = <<>> THEN ""
  ELSE IF Len(strs) = 1 THEN strs[1]
  ELSE strs[1] \o "," \o Join(Tail(strs))

\* JSON.stringify of a number and of a string member; a member that is
\* undefined is left out
JsonNumber(name, n) ==
  IF n = Undefined THEN <<>> ELSE <<"\"" \o name \o "\":" \o ToString(n)>>

JsonString(name, str) ==
  IF str = UndefinedStr THEN <<>>
  ELSE <<"\"" \o name \o "\":\"" \o str \o "\"">>

JsonScene(scene) ==
  "{" \o Join(JsonString("type", scene.type)
               \o JsonNumber("duration", scene.duration)) \o "}"

JsonSettings(settings) ==
  IF settings = NoSettings THEN <<>>
  ELSE <<"\"settings\":{"
         \o Join(JsonNumber("width", settings.width)
                 \o JsonNumber("height", settings.height)
                 \o JsonNumber("fps", settings.fps)
                 \o JsonString("format", settings.format)) \o "}">>

\* JSON.stringify(params)
JsonOf(params) ==
  "{" \o Join(<<"\"scenes\":["
                \o Join([i \in 1..Len(params.scenes) |->
                           JsonScene(params.scenes[i])]) \o "]">>
              \o JsonSettings(params.settings)) \o "}"

\* MockData with the number of working directories in the payload
MockDataStamped(params) ==
  "Mock video: " \o JsonOf(params) \o ToString(Cardinality(workDirs))

\* Buffer.from(`Mock video: ${JSON.stringify(params)}`)
MockData(params) == "Mock video: " \o JsonOf(params)

\* what the renderer writes to outputLocation
Rendered == "rendered"

NoContent == ""

\* the RenderResult renderVideo returns
ResultOf(buffer, params) ==
  [buffer |-> buffer,
   mimeType |-> GetMimeType(OrElseStr(params.settings.format, "mp4")),
   metadata |-> MetadataOf(params)]

NoResult ==
  [buffer |-> NoContent, mimeType |-> "",
   metadata |-> [duration |-> 0, width |-> 0, height |-> 0, fps |-> 0]]

\* render calls that may be in flight together
Jobs == {"j1", "j2"}

\* the templateCode argument of renderVideo / renderImage: none, "Aa", "BB"
TemplateCodes == {<<>>, <<65, 97>>, <<66, 66>>}

\* this.defaultTemplateCode, here "D"
DefaultTemplateCode == <<68>>

\* const code = templateCode || this.defaultTemplateCode
CodeOf(templateCode) ==
  IF templateCode = <<>> THEN DefaultTemplateCode ELSE templateCode

\* this.bundler.bundle(code, 'universal')
TemplateName == "universal"

Codes == {CodeOf(c) : c \in TemplateCodes}

Keys == {CacheKey(TemplateName, c) : c \in Codes}

NoPath == <<>>
NoDir == [present |-> FALSE, source |-> <<>>]

NoJob ==
  [pc |-> "idle", params |-> NoParams, code |-> <<>>, key |-> <<>>,
   bundlePath |-> NoPath, release |-> "none", compiled |-> FALSE,
   prior |-> NoPath, projRm |-> "none", error |-> "none",
   result |-> NoResult, rmTried |-> FALSE, rmOk |-> FALSE]

\* WriteOutput with one output path shared by the calls
WriteOutputShared(j, content) ==
  [i \in Jobs |-> IF i \in workDirs THEN content ELSE outputs[i]]

\* the output file of call j written, in its working directory
WriteOutput(j, content) ==
  IF j \in workDirs THEN [outputs EXCEPT ![j] = content] ELSE outputs

Settled(j) == job[j].pc \in {"returned", "thrown"}

\* OnError without the finally block: the error propagates at once
OnErrorNoFinally(r, err) == [r EXCEPT !.pc = "thrown", !.error = err]

\* an error thrown inside renderVideo's / renderImage's outer try: the finally
\* block runs before the call settles
OnError(r, err) == [r EXCEPT !.pc = "finally", !.error = err]

\* OnRenderError that leaves without calling the bundle's cleanup
OnRenderErrorSkipRelease(r, err) == [r EXCEPT !.pc = "finally", !.error = err]

\* an error thrown inside the inner try: await cleanup() runs first
OnRenderError(r, err) == [r EXCEPT !.pc = "release", !.error = err]

\* bundle() after the cache lookup missed: the backend check, then
\* createProjectStructure
BundleMiss(r) ==
  IF ~engine.bundler THEN OnError(r, "Bundler not available")
  ELSE [r EXCEPT !.pc = "scaffold"]

\* BundleCall without the cache lookup
BundleCallNoCache(r, cache) == BundleMiss(r)

\* bundle() from its start up to its first await
BundleCall(r, cache) ==
  IF cache[r.key] # NoPath THEN [r EXCEPT !.pc = "access"] ELSE BundleMiss(r)

\* renderVideo(params, templateCode) / renderImage(...) up to await fs.mkdir
RenderStart(j, params, templateCode) ==
  /\ job[j].pc = "idle" \/ Settled(j)
  /\ job' = [i \in Jobs |->
              IF i = j
              THEN [NoJob EXCEPT !.pc = "mkdir", !.params = params,
                      !.code = CodeOf(templateCode),
                      !.key = CacheKey(TemplateName, CodeOf(templateCode))]
              ELSE job[i]]
  /\ workDirs' = workDirs \ {j}
  /\ outputs' = [outputs EXCEPT ![j] = NoContent]
  /\ projDirs' = projDirs \ {j}
  /\ UNCHANGED <<engine, bundleCache, bundleDirs, bundled, storeVars, remoteVars>>

\* after await fs.mkdir(workDir): the bundle() call, or the mock render
MkdirDone(j) ==
  /\ job[j].pc = "mkdir"
  /\ \/ /\ workDirs' = workDirs \cup {j}
        /\ job' = [job EXCEPT ![j] =
                     IF engine.renderer
                     THEN BundleCall([@ EXCEPT !.prior = bundled[job[j].code]], bundleCache)
                     ELSE [@ EXCEPT !.pc = "mock_write"]]
     \/ /\ job' = [job EXCEPT ![j] = OnError(@, "mkdir")]
        /\ UNCHANGED workDirs
  /\ UNCHANGED <<engine, bundleCache, bundleDirs, projDirs, outputs, bundled, storeVars, remoteVars>>

\* bundle() after await fs.access(cachedPath): the cached bundle returned
\* with a no-op cleanup, or the stale cache entry dropped
AccessDone(j) ==
  /\ job[j].pc = "access"
  /\ IF bundleDirs[job[j].key] # NoDir
     THEN /\ job' = [job EXCEPT ![j] =
                       [@ EXCEPT !.pc = "select",
                                 !.bundlePath = bundleCache[job[j].key],
                                 !.release = "noop"]]
          /\ bundled' = [bundled EXCEPT ![job[j].code] = bundleCache[job[j].key]]
          /\ UNCHANGED bundleCache
     ELSE /\ bundleCache' = [bundleCache EXCEPT ![job[j].key] = NoPath]
          /\ job' = [job EXCEPT ![j] = BundleMiss(@)]
          /\ UNCHANGED bundled
  /\ UNCHANGED <<engine, bundleDirs, projDirs, workDirs, outputs, storeVars, remoteVars>>

\* ScaffoldDone that takes the bundle another call has recorded meanwhile
\* instead of compiling
ScaffoldDoneJoining(j) ==
  /\ job[j].pc = "scaffold"
  /\ projDirs' = projDirs \cup {j}
  /\ job' = [job EXCEPT ![j] =
               IF bundleCache[job[j].key] # NoPath
               THEN [@ EXCEPT !.pc = "select",
                              !.bundlePath = bundleCache[job[j].key],
                              !.release = "project"]
               ELSE [@ EXCEPT !.pc = "compile", !.compiled = TRUE]]
  /\ UNCHANGED <<engine, bundleCache, bundleDirs, workDirs, outputs, bundled,
                 storeVars, remoteVars>>

\* bundle() after createProjectStructure: the backend compile started, or
\* the scaffolding error caught
ScaffoldDone(j) ==
  /\ job[j].pc = "scaffold"
  /\ \/ /\ projDirs' = projDirs \cup {j}
        /\ job' = [job EXCEPT ![j] = [@ EXCEPT !.pc = "compile", !.compiled = TRUE]]
     \/ /\ projDirs' \in {projDirs, projDirs \cup {j}}
        /\ job' = [job EXCEPT ![j] =
                     [@ EXCEPT !.pc = "catch_rm_project", !.error = "scaffold"]]
  /\ UNCHANGED <<engine, bundleCache, bundleDirs, workDirs, outputs, bundled, storeVars, remoteVars>>

\* bundle() after await this.bundler.bundle(...): the result cached and
\* returned with the project-removing cleanup, or the compile error caught
CompileDone(j) ==
  /\ job[j].pc = "compile"
  /\ \/ /\ bundleDirs' = [bundleDirs EXCEPT ![job[j].key] =
                           [present |-> TRUE, source |-> job[j].code]]
        /\ bundleCache' = [bundleCache EXCEPT ![job[j].key] = BundleDir(job[j].key)]
        /\ job' = [job EXCEPT ![j] =
                     [@ EXCEPT !.pc = "select",
                               !.bundlePath = BundleDir(job[j].key),
                               !.release = "project"]]
        /\ bundled' = [bundled EXCEPT ![job[j].code] = BundleDir(job[j].key)]
     \/ /\ job' = [job EXCEPT ![j] =
                     [@ EXCEPT !.pc = "catch_rm_project", !.error = "compile"]]
        /\ UNCHANGED <<bundleDirs, bundleCache, bundled>>
  /\ UNCHANGED <<engine, projDirs, workDirs, outputs, storeVars, remoteVars>>

\* CatchRmProject without the removal
CatchSkipProject(j) ==
  /\ job[j].pc = "catch_rm_project"
  /\ job' = [job EXCEPT ![j] = [@ EXCEPT !.pc = "catch_rm_bundle"]]
  /\ UNCHANGED <<engine, bundleCache, bundleDirs, projDirs, workDirs, outputs,
                 bundled, storeVars, remoteVars>>

\* bundle()'s catch: await fs.rm(projectDir, ...).catch(() => {})
CatchRmProject(j) ==
  /\ job[j].pc = "catch_rm_project"
  /\ \/ /\ projDirs' = projDirs \ {j}
        /\ job' = [job EXCEPT ![j] =
                     [@ EXCEPT !.pc = "catch_rm_bundle", !.projRm = "ok"]]
     \/ /\ projDirs' = projDirs
        /\ job' = [job EXCEPT ![j] =
                     [@ EXCEPT !.pc = "catch_rm_bundle", !.projRm = "failed"]]
  /\ UNCHANGED <<engine, bundleCache, bundleDirs, workDirs, outputs, bundled, storeVars, remoteVars>>

\* what bundle()'s catch removes next: bundleDir
CatchTarget(r) == r.key

\* bundle()'s catch: await fs.rm(bundleDir, ...).catch(() => {}); throw err
CatchRmBundle(j) ==
  /\ job[j].pc = "catch_rm_bundle"
  /\ \/ /\ bundleDirs' = [k \in Keys |->
                            IF k = CatchTarget(job[j]) THEN NoDir ELSE bundleDirs[k]]
        /\ bundled' = [c \in Codes |->
                         IF bundled[c] = BundleDir(CatchTarget(job[j]))
                         THEN NoPath ELSE bundled[c]]
        /\ job' = [i \in Jobs |->
                     IF i = j THEN OnError(job[j], job[j].error)
                     ELSE IF job[i].prior = BundleDir(CatchTarget(job[j]))
                     THEN [job[i] EXCEPT !.prior = NoPath]
                     ELSE job[i]]
     \/ /\ job' = [job EXCEPT ![j] = OnError(@, job[j].error)]
        /\ UNCHANGED <<bundleDirs, bundled>>
  /\ UNCHANGED <<engine, bundleCache, projDirs, workDirs, outputs, storeVars, remoteVars>>

\* after await this.renderer.selectComposition(...)
SelectDone(j) ==
  /\ job[j].pc = "select"
  /\ \/ job' = [job EXCEPT ![j] = [@ EXCEPT !.pc = "render"]]
     \/ job' = [job EXCEPT ![j] = OnRenderError(@, "selectComposition")]
  /\ UNCHANGED <<engine, bundleCache, bundleDirs, projDirs, workDirs, outputs, bundled, storeVars, remoteVars>>

\* after await this.renderer.renderMedia(...) / renderStill(...)
RenderDone(j) ==
  /\ job[j].pc = "render"
  /\ \/ /\ outputs' = WriteOutput(j, Rendered)
        /\ job' = [job EXCEPT ![j] = [@ EXCEPT !.pc = "release"]]
     \/ /\ job' = [job EXCEPT ![j] = OnRenderError(@, "render")]
        /\ UNCHANGED outputs
  /\ UNCHANGED <<engine, bundleCache, bundleDirs, projDirs, workDirs, bundled, storeVars, remoteVars>>

\* the inner finally: await cleanup(), the function bundle() returned
Release(j) ==
  /\ job[j].pc = "release"
  /\ projDirs' \in IF job[j].release = "project"
                   THEN {projDirs \ {j}, projDirs}
                   ELSE {projDirs}
  /\ job' = [job EXCEPT ![j] =
               IF job[j].error # "none" THEN OnError(@, job[j].error)
               ELSE [@ EXCEPT !.pc = "read"]]
  /\ UNCHANGED <<engine, bundleCache, bundleDirs, workDirs, outputs, bundled, storeVars, remoteVars>>

\* mock mode: after await fs.writeFile(outputPath, mockData)
MockWriteDone(j) ==
  /\ job[j].pc = "mock_write"
  /\ \/ /\ outputs' = WriteOutput(j, MockData(job[j].params))
        /\ job' = [job EXCEPT ![j] = [@ EXCEPT !.pc = "read"]]
     \/ /\ job' = [job EXCEPT ![j] = OnError(@, "write")]
        /\ UNCHANGED outputs
  /\ UNCHANGED <<engine, bundleCache, bundleDirs, projDirs, workDirs, bundled, storeVars, remoteVars>>

\* after await fs.readFile(outputPath): the result is returned through the
\* finally block
ReadDone(j) ==
  /\ job[j].pc = "read"
  /\ \/ /\ outputs[j] # NoContent
        /\ job' = [job EXCEPT ![j] =
                     [@ EXCEPT !.pc = "finally",
                               !.result = ResultOf(outputs[j], job[j].params)]]
     \/ job' = [job EXCEPT ![j] = OnError(@, "read")]
  /\ UNCHANGED <<engine, bundleCache, bundleDirs, projDirs, workDirs, outputs, bundled, storeVars, remoteVars>>

\* Settle with the removal's error thrown to the caller
SettleSurfacing(r, removed) ==
  [NoJob EXCEPT !.pc = IF r.error = "none" /\ removed THEN "returned"
                       ELSE "thrown",
                !.params = r.params,
                !.error = IF removed THEN r.error ELSE "rm",
                !.rmTried = TRUE, !.rmOk = removed]

\* the call returns its result or rethrows; its locals are gone
Settle(r, removed) ==
  [NoJob EXCEPT !.pc = IF r.error = "none" THEN "returned" ELSE "thrown",
                !.params = r.params, !.error = r.error,
                !.result = IF r.error = "none" THEN r.result ELSE NoResult,
                !.rmTried = TRUE, !.rmOk = removed]

\* the outer finally: await fs.rm(workDir, { recursive, force }).catch(() =>
\* {}), then the call returns or rethrows
Finally(j) ==
  /\ job[j].pc = "finally"
  /\ \/ /\ workDirs' = workDirs \ {j}
        /\ outputs' = [outputs EXCEPT ![j] = NoContent]
        /\ job' = [job EXCEPT ![j] = Settle(@, TRUE)]
     \/ /\ j \in workDirs
        /\ job' = [job EXCEPT ![j] = Settle(@, FALSE)]
        /\ UNCHANGED <<workDirs, outputs>>
  /\ UNCHANGED <<engine, bundleCache, bundleDirs, projDirs, bundled, storeVars, remoteVars>>

\* after RenderEngine.initialize(): each backend module loaded or not
InitRender(loaded) ==
  /\ engine \in [renderer : loaded, bundler : loaded]
  /\ bundleCache = [k \in Keys |-> NoPath]
  /\ bundleDirs = [k \in Keys |-> NoDir]
  /\ projDirs = {}
  /\ workDirs = {}
  /\ outputs = [j \in Jobs |-> NoContent]
  /\ job = [j \in Jobs |-> NoJob]
  /\ bundled = [c \in Codes |-> NoPath]

(***************************************************************************)
(* StorageClient and StorageHandler                                        *)
(***************************************************************************)
\* content items of a tools/call answer; "" stands for a text that is not
\* given
TextItem(text) == [type |-> "text", text |-> text]
ImageItem == [type |-> "image", text |-> ""]

NoRpcError == ""

\* the JSON bodies the storage service may answer a tools/call with
Bodies ==
  { [error |-> "quota exceeded", content |-> <<>>],
    [error |-> "quota exceeded", content |-> <<TextItem("https://s/a")>>],
    [error |-> NoRpcError, content |-> <<>>],
    [error |-> NoRpcError, content |-> <<ImageItem>>],
    [error |-> NoRpcError, content |-> <<TextItem("")>>],
    [error |-> NoRpcError, content |-> <<TextItem("https://s/a")>>],
    [error |-> NoRpcError, content |-> <<ImageItem, TextItem("https://s/b")>>],
    [error |-> NoRpcError,
     content |-> <<TextItem("https://s/a"), TextItem("https://s/b")>>] }

\* the configurations of the StorageHandler: endpoint and API key, "" when
\* not configured
StorageConfigs == [endpoint : {"", "https://s"}, apiKey : {"", "k"}]

\* content.find((c) => c.type === 'text') with the last such item instead
FindTextLast(content) ==
  LET at == {i \in 1..Len(content) : content[i].type = "text"} IN
  IF at = {} THEN ImageItem
  ELSE content[CHOOSE i \in at : \A k \in at : k <= i]

\* content.find((c) => c.type === 'text'); an item that is no text item
\* stands for undefined
FindText(content) ==
  LET at == {i \in 1..Len(content) : content[i].type = "text"} IN
  IF at = {} THEN ImageItem
  ELSE content[CHOOSE i \in at : \A k \in at : i <= k]

\* what store() settles with
RemoteOut(p, result, url, message, requests, body) ==
  [kind |-> "store", call |-> p, result |-> result, url |-> url,
   message |-> message, requests |-> requests, body |-> body]

NoBody == [error |-> NoRpcError, content |-> <<>>]

NoRemoteOut == [kind |-> "none"]

\* callTool() after await response.json(): the checks of the parsed body
CallToolResult(p, requests, body) ==
  IF body.error # NoRpcError
  THEN RemoteOut(p, "error", "", "Storage service error: " \o body.error,
                 requests, body)
  ELSE IF body.content = <<>>
  THEN RemoteOut(p, "error", "", "Invalid storage service response: no content",
                 requests, body)
  ELSE IF FindText(body.content).type # "text" \/ FindText(body.content).text = ""
  THEN RemoteOut(p, "error", "", "Invalid storage service response: no URL",
                 requests, body)
  ELSE RemoteOut(p, "ok", FindText(body.content).text, "", requests, body)

\* NotInitialized with the client checked alone
NotInitializedClientOnly == ~sh.client

\* StorageHandler.store()'s guard
NotInitialized == ~sh.ready \/ ~sh.client

\* StorageHandler.initialize() up to await this.client.healthCheck()
RemoteInitialize ==
  /\ mode = "storage"
  /\ sst[Boot].pc = "idle"
  /\ IF sconf.endpoint = ""
     THEN /\ sh' = [sh EXCEPT !.error = "No storage endpoint configured"]
          /\ sst' = [sst EXCEPT ![Boot] = [pc |-> "failed"]]
          /\ UNCHANGED sent
     ELSE IF sconf.apiKey = ""
     THEN /\ sh' = [sh EXCEPT !.error = "No storage API key configured"]
          /\ sst' = [sst EXCEPT ![Boot] = [pc |-> "failed"]]
          /\ UNCHANGED sent
     ELSE /\ sh' = [sh EXCEPT !.client = TRUE]
          /\ sst' = [sst EXCEPT ![Boot] = [pc |-> "probe"]]
          /\ sent' = [sent EXCEPT !.list = @ + 1]
  /\ rout' = NoRemoteOut
  /\ UNCHANGED <<mode, sconf, storeVars, renderVars>>

\* initialize() after await healthCheck(): response.ok, or false when fetch
\* threw
ProbeDone ==
  /\ sst[Boot].pc = "probe"
  /\ \E healthy \in BOOLEAN :
       IF healthy
       THEN /\ sh' = [sh EXCEPT !.ready = TRUE]
            /\ sst' = [sst EXCEPT ![Boot] = [pc |-> "done", healthy |-> TRUE]]
       ELSE /\ sh' = [sh EXCEPT !.error = "Cannot connect to storage service"]
            /\ sst' = [sst EXCEPT ![Boot] =
                          [pc |-> "failed", healthy |-> FALSE]]
  /\ rout' = NoRemoteOut
  /\ UNCHANGED <<mode, sconf, sent, storeVars, renderVars>>

\* StorageHandler.store(file) up to callTool's await fetch
RemoteStoreCall(p, file) ==
  /\ mode = "storage"
  /\ sst[p].pc = "idle"
  /\ sent.call < env.stores
  /\ IF NotInitialized
     THEN /\ rout' = RemoteOut(p, "not_ready", "",
                               "StorageHandler not initialized", 0, NoBody)
          /\ UNCHANGED <<sst, sent>>
     ELSE /\ sst' = [sst EXCEPT ![p] =
                       [pc |-> "fetch", file |-> file, requests |-> 1]]
          /\ sent' = [sent EXCEPT !.call = @ + 1]
          /\ rout' = NoRemoteOut
  /\ UNCHANGED <<mode, sconf, sh, storeVars, renderVars>>

\* callTool() after await fetch: fetch threw, the response is not OK, or
\* await response.json() started
FetchDone(p) ==
  /\ sst[p].pc = "fetch"
  /\ \/ /\ rout' = RemoteOut(p, "error", "", "fetch failed",
                             sst[p].requests, NoBody)
        /\ sst' = [sst EXCEPT ![p] = [pc |-> "idle"]]
     \/ /\ rout' = RemoteOut(p, "error", "", "Storage service error: 500",
                             sst[p].requests, NoBody)
        /\ sst' = [sst EXCEPT ![p] = [pc |-> "idle"]]
     \/ /\ rout' = NoRemoteOut
        /\ sst' = [sst EXCEPT ![p] = [@ EXCEPT !.pc = "json"]]
  /\ UNCHANGED <<mode, sconf, sh, sent, storeVars, renderVars>>

\* callTool() after await response.json(): the body is no JSON, or store()
\* settles with what callTool makes of the body
JsonDone(p) ==
  /\ sst[p].pc = "json"
  /\ \/ rout' = RemoteOut(p, "error", "", "Unexpected token",
                          sst[p].requests, NoBody)
     \/ \E body \in Bodies : rout' = CallToolResult(p, sst[p].requests, body)
  /\ sst' = [sst EXCEPT ![p] = [pc |-> "idle"]]
  /\ UNCHANGED <<mode, sconf, sh, sent, storeVars, renderVars>>

\* a StorageHandler just constructed
InitRemote(modes, sconfs) ==
  /\ mode \in modes
  /\ sconf \in sconfs
  /\ sh = [client |-> FALSE, ready |-> FALSE, error |-> ""]
  /\ sst = [p \in Procs |-> [pc |-> "idle"]]
  /\ sent = [list |-> 0, call |-> 0]
  /\ rout = NoRemoteOut

\* the process in url mode
UrlMode == InitRemote({"url"}, {[endpoint |-> "", apiKey |-> ""]})

(***************************************************************************)
(* RemotionMcpServer: the CallTool handler                                 *)
(***************************************************************************)
RenderVideoTool == "remotion_render_video"
RenderImageTool == "remotion_render_image"
StatusTool == "remotion_status"

RenderTools == {RenderVideoTool, RenderImageTool}

\* request.params.name: the three tools, and a name that is none of them
ToolNames == RenderTools \cup {StatusTool, "remotion_export"}

\* request.params.arguments of the render tools; the image tool's scene is
\* the one scene of the list
ToolParams ==
  { DefaultParams,
    [scenes |-> <<Scene("text", 1)>>,
     settings |-> [width |-> 640, height |-> 360, fps |-> Undefined,
                   format |-> "webm"]] }

NoTool == [pc |-> "idle", name |-> "", isError |-> FALSE, text |-> ""]

\* run() has not been called yet
Starting == [NoTool EXCEPT !.pc = "start"]

\* the positions of run() before registerHandlers(), and after main()'s
\* catch has ended the process
Unregistered == {"start", "engine_init", "output_init", "failed"}

\* registerHandlers() has run: both initialize() calls have resolved
Registered == tool.pc \notin Unregistered

\* the position of the output handler's initialize()
OutputBoot == IF mode = "url" THEN st[Boot].pc ELSE sst[Boot].pc

\* main() calls run(), which calls initialize(): up to
\* await this.renderEngine.initialize()
RunStart ==
  /\ tool.pc = "start"
  /\ tool' = [tool EXCEPT !.pc = "engine_init"]
  /\ UNCHANGED <<storeVars, renderVars, remoteVars>>

\* after await this.renderEngine.initialize(): outputHandler.initialize() is
\* called and runs up to its first await; or the engine's error leaves run()
\* and main()'s catch exits
EngineInitDone ==
  /\ tool.pc = "engine_init"
  /\ \/ /\ tool' = [tool EXCEPT !.pc = "output_init"]
        /\ IF mode = "url" THEN Initialize ELSE RemoteInitialize
     \/ /\ env.faults
        /\ tool' = [tool EXCEPT !.pc = "failed"]
        /\ UNCHANGED <<storeVars, renderVars, remoteVars>>

\* OutputInitDone that goes on to register and connect whatever
\* outputHandler.initialize() settled with
OutputInitDoneAnyway ==
  /\ tool.pc = "output_init"
  /\ OutputBoot \in {"done", "failed"}
  /\ tool' = [tool EXCEPT !.pc = "connect"]
  /\ UNCHANGED <<storeVars, renderVars, remoteVars>>

\* after await this.outputHandler.initialize(): registerHandlers(), then
\* run() up to await this.server.connect(transport); or the handler's error
\* leaves run() and main()'s catch exits
OutputInitDone ==
  /\ tool.pc = "output_init"
  /\ OutputBoot \in {"done", "failed"}
  /\ tool' = [tool EXCEPT !.pc = IF OutputBoot = "done" THEN "connect"
                                 ELSE "failed"]
  /\ UNCHANGED <<storeVars, renderVars, remoteVars>>

\* after await this.server.connect(transport): requests are read from stdin
Connected ==
  /\ tool.pc = "connect"
  /\ tool' = [tool EXCEPT !.pc = "idle"]
  /\ UNCHANGED <<storeVars, renderVars, remoteVars>>

\* the run still has a store() call left for this request
WithinRun ==
  IF mode = "url" THEN nextId <= env.stores ELSE sent.call < env.stores

\* the RenderResult renderImage returns: the buffer read from the output
\* file, the image MIME type, and width and height alone as metadata
ImageResultOf(buffer, params) ==
  [buffer |-> buffer,
   mimeType |-> IF OrElseStr(params.settings.format, "png") = "jpeg"
                THEN "image/jpeg" ELSE "image/png",
   metadata |-> [duration |-> 0,
                 width |-> OrElse(params.settings.width, DefaultWidth),
                 height |-> OrElse(params.settings.height, DefaultHeight),
                 fps |-> 0]]

\* const result = await this.renderEngine.renderVideo / renderImage(params)
ToolResult ==
  IF tool.name = RenderImageTool
  THEN ImageResultOf(job["j1"].result.buffer, job["j1"].params)
  ELSE job["j1"].result

\* the FileData the handler passes to store()
FileOf(result) == [size |-> Len(result.buffer), mimeType |-> result.mimeType]

\* parts.join(' * '); the bullet is written *
RECURSIVE JoinParts(_)
JoinParts(parts) ==
  IF Len(parts) = 1 THEN parts[1]
  ELSE parts[1] \o " * " \o JoinParts(Tail(parts))

\* the parts formatOutput pushes; the multiplication sign is written x
PartsOf(metadata) ==
  (IF metadata.duration # 0
   THEN <<ToString(metadata.duration) \o "s">> ELSE <<>>)
  \o (IF metadata.width # 0 /\ metadata.height # 0
      THEN <<ToString(metadata.width) \o "x" \o ToString(metadata.height)>>
      ELSE <<>>)
  \o (IF metadata.fps # 0 THEN <<ToString(metadata.fps) \o "fps">> ELSE <<>>)

\* FormatOutput with the summary put before the URL
FormatOutputSummaryFirst(url, metadata) ==
  IF PartsOf(metadata) = <<>> THEN url
  ELSE JoinParts(PartsOf(metadata)) \o "\n" \o url

\* formatOutput(url, metadata); the camera sign is written >
FormatOutput(url, metadata) ==
  IF PartsOf(metadata) = <<>> THEN url
  ELSE url \o "\n> " \o JoinParts(PartsOf(metadata))

\* `${baseUrl}/files/${filename}?token=${token}` of a FileEntry
UrlOf(entry) ==
  "http://localhost/files/" \o ToString(entry.filename[1])
    \o entry.filename[2] \o "?token=" \o ToString(entry.token[2])

\* the message of the Error a rejected UrlHandler.store() throws
StoreMessage(result, size) ==
  CASE result = "not_ready" -> "UrlHandler not initialized"
    [] result = "too_large" -> "File too large: " \o ToString(size) \o " bytes"
    [] OTHER -> "writeFile failed"

\* the handler returns its content
Answer(name, text) ==
  [pc |-> "answered", name |-> name, isError |-> FALSE, text |-> text]

\* catch (error): the result with isError
Caught(name, message) ==
  [pc |-> "answered", name |-> name, isError |-> TRUE,
   text |-> "Error: " \o message]

\* the handler after await this.outputHandler.store(...), when the
\* UrlHandler's store() settled in this step
StoreSettled(t) ==
  IF out'.kind # "store" THEN t
  ELSE IF out'.result = "ok"
  THEN Answer(t.name, FormatOutput(UrlOf(issued'[out'.id]), ToolResult.metadata))
  ELSE Caught(t.name, StoreMessage(out'.result, Len(ToolResult.buffer)))

\* the same, when the StorageHandler's store() settled in this step
RemoteSettled(t) ==
  IF rout'.kind # "store" THEN t
  ELSE IF rout'.result = "ok"
  THEN Answer(t.name, FormatOutput(rout'.url, ToolResult.metadata))
  ELSE Caught(t.name, rout'.message)

\* a tools/call request for a render tool arrives: the handler up to the
\* first await of renderVideo / renderImage
ToolCall(name, params) ==
  /\ Registered
  /\ WithinRun
  /\ tool.pc \in {"idle", "answered"}
  /\ name \in RenderTools
  /\ RenderStart("j1", params, <<>>)
  /\ tool' = [NoTool EXCEPT !.pc = "render", !.name = name]

\* a tools/call request for remotion_status or for an unknown tool
ToolOther(name) ==
  /\ Registered
  /\ tool.pc \in {"idle", "answered"}
  /\ name \notin RenderTools
  /\ tool' = IF name = StatusTool THEN Answer(name, "status")
             ELSE Caught(name, "Unknown tool: " \o name)
  /\ UNCHANGED <<storeVars, renderVars, remoteVars>>

\* the render call has settled: its error is caught, or store() is called
\* with its result and runs up to its first await
ToolRendered ==
  /\ tool.pc = "render"
  /\ Settled("j1")
  /\ IF job["j1"].pc = "thrown"
     THEN /\ tool' = Caught(tool.name, job["j1"].error)
          /\ UNCHANGED <<storeVars, renderVars, remoteVars>>
     ELSE \/ /\ mode = "url"
             /\ StoreCall("s1", FileOf(ToolResult))
             /\ tool' = StoreSettled([tool EXCEPT !.pc = "store"])
          \/ /\ RemoteStoreCall("s1", FileOf(ToolResult))
             /\ tool' = RemoteSettled([tool EXCEPT !.pc = "store"])

(***************************************************************************)
(* TemplateManager: create()                                               *)
(***************************************************************************)
UpperCase == "ABCDEFGHIJKLMNOPQRSTUVWXYZ"

LowerCase == "abcdefghijklmnopqrstuvwxyz"

\* the characters /[^a-z0-9-]/ leaves alone
SlugChars == LowerCase \o Digits \o "-"

\* str.indexOf(c) + 1 for a character c
RECURSIVE IndexFrom(_, _, _)
IndexFrom(c, str, i) ==
  IF i > Len(str) THEN 0
  ELSE IF SubSeq(str, i, i) = c THEN i
  ELSE IndexFrom(c, str, i + 1)

\* toLowerCase() of one character
ToLowerCase(c) ==
  LET i == IndexFrom(c, UpperCase, 1) IN
  IF i = 0 THEN c ELSE SubSeq(LowerCase, i, i)

\* params.name.toLowerCase().replace(/[^a-z0-9-]/g, '-')
RECURSIVE NormalizeName(_)
NormalizeName(str) ==
  IF str = "" THEN ""
  ELSE LET c == ToLowerCase(SubSeq(str, 1, 1)) IN
       (IF IndexFrom(c, SlugChars, 1) = 0 THEN "-" ELSE c)
         \o NormalizeName(SubSeq(str, 2, Len(str)))

\* str.includes(sub)
RECURSIVE Includes(_, _)
Includes(str, sub) ==
  IF Len(str) < Len(sub) THEN FALSE
  ELSE IF SubSeq(str, 1, Len(sub)) = sub THEN TRUE
  ELSE Includes(SubSeq(str, 2, Len(str)), sub)

\* the name and code arguments of create()
TemplateNames == {"Intro", "intro", "my clip", "universal"}

TemplateSources == {"export A", "export B", "const A"}

CreateParams == [name : TemplateNames, code : TemplateSources]

Slugs == {NormalizeName(n) : n \in TemplateNames}

\* create() calls that may be in flight together
Creators == {"c1", "c2"}

\* how many create() calls a run makes
MaxCreates == 3

NoTemplate == [name |-> "", code |-> ""]

NoCreate == [pc |-> "idle", template |-> NoTemplate, error |-> ""]

\* the manager before initialize() has loaded anything
NoManager ==
  [templates |-> [n \in Slugs |-> NoTemplate],
   files |-> [n \in Slugs |-> NoTemplate],
   call |-> [c \in Creators |-> NoCreate],
   made |-> 0,
   returned |-> [n \in Slugs |-> 0]]

\* the manager once initialize() has resolved: the default template
\* 'universal' is in the Map and in templatesDir
DefaultTemplate == [name |-> "universal", code |-> "export D"]

Initialized ==
  [NoManager EXCEPT !.templates["universal"] = DefaultTemplate,
                    !.files["universal"] = DefaultTemplate]

\* create(params) up to await this.saveTemplate(template)
Create(c, params) ==
  /\ tm.call[c].pc \in {"idle", "returned", "thrown"}
  /\ tm.made < MaxCreates
  /\ LET name == NormalizeName(params.name)
         template == [name |-> name, code |-> params.code] IN
     tm' = [tm EXCEPT
              !.made = @ + 1,
              !.call[c] =
                IF tm.templates[name] # NoTemplate
                THEN [pc |-> "thrown", template |-> NoTemplate,
                      error |-> "Template '" \o name \o "' already exists"]
                ELSE IF ~Includes(params.code, "export")
                THEN [pc |-> "thrown", template |-> NoTemplate,
                      error |-> "Template must export a Main component"]
                ELSE [pc |-> "save", template |-> template, error |-> ""]]
  /\ UNCHANGED <<storeVars, renderVars, remoteVars, tool>>

\* create() after await this.saveTemplate(template): the template is set in
\* the Map and prepareBundle() called, or the write's error thrown
SaveDone(c) ==
  /\ tm.call[c].pc = "save"
  /\ LET template == tm.call[c].template IN
     \/ tm' = [tm EXCEPT !.files[template.name] = template,
                         !.templates[template.name] = template,
                         !.call[c].pc = "prepare"]
     \/ tm' = [tm EXCEPT !.call[c] =
                           [pc |-> "thrown", template |-> NoTemplate,
                            error |-> "writeFile"]]
  /\ UNCHANGED <<storeVars, renderVars, remoteVars, tool>>

\* create() after await this.prepareBundle(template): the template
\* returned, or the error of one of prepareBundle()'s writes thrown
PrepareDone(c) ==
  /\ tm.call[c].pc = "prepare"
  /\ LET template == tm.call[c].template IN
     \/ tm' = [tm EXCEPT !.call[c].pc = "returned",
                         !.returned[template.name] = @ + 1]
     \/ tm' = [tm EXCEPT !.call[c] =
                           [pc |-> "thrown", template |-> NoTemplate,
                            error |-> "prepareBundle"]]
  /\ UNCHANGED <<storeVars, renderVars, remoteVars, tool>>

Configs ==
  [maxDiskBytes : MaxDiskChoices, maxFiles : MaxFilesChoices,
   ttlSeconds : TtlChoices]

InitStore(configs, stores, ticks, faults, dirs) ==
  /\ cfg \in configs
  /\ env \in [stores : {stores}, ticks : {ticks}, faults : faults]
  /\ ready = FALSE
  /\ files = <<>>
  /\ disk \in dirs
  /\ now = 0
  /\ nextId = 1
  /\ st = [p \in Procs |-> Idle]
  /\ out = NoOut
  /\ issued = [i \in 1..stores |-> NotIssued]

Next ==
  \/ Initialize /\ UNCHANGED <<tool, tm>>
  \/ ServeDirMade /\ UNCHANGED <<tool, tm>>
  \/ ServeDirRead /\ UNCHANGED <<tool, tm>>
  \/ WipeUnlinkDone /\ UNCHANGED <<tool, tm>>
  \/ Listening /\ UNCHANGED <<tool, tm>>
  \/ \E p \in Callers, file \in Inputs : StoreCall(p, file) /\ UNCHANGED <<tool, tm>>
  \/ TimerFire /\ UNCHANGED <<tool, tm>>
  \/ \E p \in Procs : SweepUnlinkDone(p) /\ UNCHANGED <<tool, tm>>
  \/ \E p \in Callers : EnforceQuotas(p) /\ UNCHANGED <<tool, tm>>
  \/ \E p \in Callers : DiskUnlinkDone(p) /\ UNCHANGED <<tool, tm>>
  \/ \E p \in Callers : CountUnlinkDone(p) /\ UNCHANGED <<tool, tm>>
  \/ \E p \in Callers : WriteDone(p) /\ UNCHANGED <<tool, tm>>
  \/ \E filename \in RequestFilenames :
       \E token \in RequestTokens(filename) :
         Retrieve(filename, token) /\ UNCHANGED <<tool, tm>>
  \/ Tick /\ UNCHANGED <<tool, tm>>

\* store() requests in flight together, the file system free to fail
Init ==
  /\ InitStore(Configs, MaxConcStores, MaxTicks, BOOLEAN, {{}, {-1}})
  /\ InitRender({FALSE})
  /\ UrlMode
  /\ tool = NoTool
  /\ tm = NoManager

Spec == Init /\ [][Next]_vars

\* store() calls that follow one another: one caller, which starts a call
\* only when its last one has settled; retrievals and the timer's sweeps run
\* at any time
SeqInit ==
  /\ InitStore(Configs, MaxStores, MaxTicks, {FALSE}, {{}, {-1}})
  /\ InitRender({FALSE})
  /\ UrlMode
  /\ tool = NoTool
  /\ tm = NoManager

SeqNext ==
  \/ Initialize /\ UNCHANGED <<tool, tm>>
  \/ ServeDirMade /\ UNCHANGED <<tool, tm>>
  \/ ServeDirRead /\ UNCHANGED <<tool, tm>>
  \/ WipeUnlinkDone /\ UNCHANGED <<tool, tm>>
  \/ Listening /\ UNCHANGED <<tool, tm>>
  \/ \E file \in Inputs : StoreCall("s1", file) /\ UNCHANGED <<tool, tm>>
  \/ TimerFire /\ UNCHANGED <<tool, tm>>
  \/ \E p \in {"s1", Timer} : SweepUnlinkDone(p) /\ UNCHANGED <<tool, tm>>
  \/ EnforceQuotas("s1") /\ UNCHANGED <<tool, tm>>
  \/ DiskUnlinkDone("s1") /\ UNCHANGED <<tool, tm>>
  \/ CountUnlinkDone("s1") /\ UNCHANGED <<tool, tm>>
  \/ WriteDone("s1") /\ UNCHANGED <<tool, tm>>
  \/ \E filename \in RequestFilenames :
       \E token \in RequestTokens(filename) :
         Retrieve(filename, token) /\ UNCHANGED <<tool, tm>>
  \/ Tick /\ UNCHANGED <<tool, tm>>

SeqSpec == SeqInit /\ [][SeqNext]_vars

\* render calls in flight together; the store is left alone
RenderInit ==
  /\ InitStore({[maxDiskBytes |-> 3, maxFiles |-> 2, ttlSeconds |-> 1]}, 0, 0,
               {FALSE}, {{}})
  /\ InitRender(BOOLEAN)
  /\ UrlMode
  /\ tool = NoTool
  /\ tm = NoManager

RenderNext ==
  \/ \E j \in Jobs, code \in TemplateCodes :
       RenderStart(j, DefaultParams, code) /\ UNCHANGED <<tool, tm>>
  \/ \E j \in Jobs : MkdirDone(j) /\ UNCHANGED <<tool, tm>>
  \/ \E j \in Jobs : AccessDone(j) /\ UNCHANGED <<tool, tm>>
  \/ \E j \in Jobs : ScaffoldDone(j) /\ UNCHANGED <<tool, tm>>
  \/ \E j \in Jobs : CompileDone(j) /\ UNCHANGED <<tool, tm>>
  \/ \E j \in Jobs : CatchRmProject(j) /\ UNCHANGED <<tool, tm>>
  \/ \E j \in Jobs : CatchRmBundle(j) /\ UNCHANGED <<tool, tm>>
  \/ \E j \in Jobs : SelectDone(j) /\ UNCHANGED <<tool, tm>>
  \/ \E j \in Jobs : RenderDone(j) /\ UNCHANGED <<tool, tm>>
  \/ \E j \in Jobs : Release(j) /\ UNCHANGED <<tool, tm>>
  \/ \E j \in Jobs : MockWriteDone(j) /\ UNCHANGED <<tool, tm>>
  \/ \E j \in Jobs : ReadDone(j) /\ UNCHANGED <<tool, tm>>
  \/ \E j \in Jobs : Finally(j) /\ UNCHANGED <<tool, tm>>

RenderSpec == RenderInit /\ [][RenderNext]_vars

\* render calls with the renderer module missing, over the params
MockInit ==
  /\ RenderInit
  /\ ~engine.renderer

MockNext ==
  \/ \E j \in Jobs, params \in VideoParams : RenderStart(j, params, <<>>) /\ UNCHANGED <<tool, tm>>
  \/ \E j \in Jobs : MkdirDone(j) /\ UNCHANGED <<tool, tm>>
  \/ \E j \in Jobs : MockWriteDone(j) /\ UNCHANGED <<tool, tm>>
  \/ \E j \in Jobs : ReadDone(j) /\ UNCHANGED <<tool, tm>>
  \/ \E j \in Jobs : Finally(j) /\ UNCHANGED <<tool, tm>>

MockSpec == MockInit /\ [][MockNext]_vars

\* an output handler from its construction on: the UrlHandler over the
\* contents of its serve directory, or the StorageHandler over its
\* configurations; the clock stands still
HandlerInit ==
  /\ InitRender({FALSE})
  /\ \/ /\ InitStore(Configs, MaxStores, 0, BOOLEAN, SUBSET PreExisting)
        /\ UrlMode
     \/ /\ InitStore({[maxDiskBytes |-> 3, maxFiles |-> 2, ttlSeconds |-> 1]},
                      MaxStores, 0, {FALSE}, {{}})
        /\ InitRemote({"storage"}, StorageConfigs)
  /\ tool = NoTool
  /\ tm = NoManager

HandlerNext ==
  \/ mode = "url" /\ Initialize /\ UNCHANGED <<tool, tm>>
  \/ ServeDirMade /\ UNCHANGED <<tool, tm>>
  \/ ServeDirRead /\ UNCHANGED <<tool, tm>>
  \/ WipeUnlinkDone /\ UNCHANGED <<tool, tm>>
  \/ Listening /\ UNCHANGED <<tool, tm>>
  \/ \E file \in Inputs : mode = "url" /\ StoreCall("s1", file) /\ UNCHANGED <<tool, tm>>
  \/ EnforceQuotas("s1") /\ UNCHANGED <<tool, tm>>
  \/ DiskUnlinkDone("s1") /\ UNCHANGED <<tool, tm>>
  \/ CountUnlinkDone("s1") /\ UNCHANGED <<tool, tm>>
  \/ WriteDone("s1") /\ UNCHANGED <<tool, tm>>
  \/ RemoteInitialize /\ UNCHANGED <<tool, tm>>
  \/ ProbeDone /\ UNCHANGED <<tool, tm>>
  \/ \E file \in Inputs : RemoteStoreCall("s1", file) /\ UNCHANGED <<tool, tm>>
  \/ FetchDone("s1") /\ UNCHANGED <<tool, tm>>
  \/ JsonDone("s1") /\ UNCHANGED <<tool, tm>>

HandlerSpec == HandlerInit /\ [][HandlerNext]_vars

\* one tools/call request at a time, from a server whose initialize() has
\* run, in either output mode; the clock stands still
ToolConfigs ==
  { [maxDiskBytes |-> 7, maxFiles |-> 1, ttlSeconds |-> 1],
    [maxDiskBytes |-> 100, maxFiles |-> 1, ttlSeconds |-> 1] }

ToolInit ==
  /\ InitRender(BOOLEAN)
  /\ \/ /\ InitStore(ToolConfigs, MaxStores, 0, BOOLEAN, {{}})
        /\ UrlMode
     \/ /\ InitStore({[maxDiskBytes |-> 3, maxFiles |-> 2, ttlSeconds |-> 1]},
                      MaxStores, 0, {FALSE}, {{}})
        /\ InitRemote({"storage"}, {[endpoint |-> "https://s", apiKey |-> "k"]})
  /\ tool = Starting
  /\ tm = NoManager

ToolNext ==
  \/ RunStart /\ UNCHANGED tm
  \/ EngineInitDone /\ UNCHANGED tm
  \/ ServeDirMade /\ UNCHANGED <<tool, tm>>
  \/ ServeDirRead /\ UNCHANGED <<tool, tm>>
  \/ Listening /\ UNCHANGED <<tool, tm>>
  \/ ProbeDone /\ UNCHANGED <<tool, tm>>
  \/ OutputInitDone /\ UNCHANGED tm
  \/ Connected /\ UNCHANGED tm
  \/ \E name \in RenderTools, params \in ToolParams : ToolCall(name, params) /\ UNCHANGED tm
  \/ \E name \in ToolNames : ToolOther(name) /\ UNCHANGED tm
  \/ MkdirDone("j1") /\ UNCHANGED <<tool, tm>>
  \/ AccessDone("j1") /\ UNCHANGED <<tool, tm>>
  \/ ScaffoldDone("j1") /\ UNCHANGED <<tool, tm>>
  \/ CompileDone("j1") /\ UNCHANGED <<tool, tm>>
  \/ CatchRmProject("j1") /\ UNCHANGED <<tool, tm>>
  \/ CatchRmBundle("j1") /\ UNCHANGED <<tool, tm>>
  \/ SelectDone("j1") /\ UNCHANGED <<tool, tm>>
  \/ RenderDone("j1") /\ UNCHANGED <<tool, tm>>
  \/ Release("j1") /\ UNCHANGED <<tool, tm>>
  \/ MockWriteDone("j1") /\ UNCHANGED <<tool, tm>>
  \/ ReadDone("j1") /\ UNCHANGED <<tool, tm>>
  \/ Finally("j1") /\ UNCHANGED <<tool, tm>>
  \/ ToolRendered /\ UNCHANGED tm
  \/ EnforceQuotas("s1") /\ tool' = StoreSettled(tool) /\ UNCHANGED tm
  \/ DiskUnlinkDone("s1") /\ tool' = StoreSettled(tool) /\ UNCHANGED tm
  \/ CountUnlinkDone("s1") /\ tool' = StoreSettled(tool) /\ UNCHANGED tm
  \/ WriteDone("s1") /\ tool' = StoreSettled(tool) /\ UNCHANGED tm
  \/ FetchDone("s1") /\ tool' = RemoteSettled(tool) /\ UNCHANGED tm
  \/ JsonDone("s1") /\ tool' = RemoteSettled(tool) /\ UNCHANGED tm

ToolSpec == ToolInit /\ [][ToolNext]_vars

\* the UrlHandler from initialize() to shutdown(): store() calls that follow
\* one another, retrievals, the timer's sweeps and the clock
LifeConfigs ==
  [maxDiskBytes : {3}, maxFiles : {1, 2}, ttlSeconds : TtlChoices]

LifeInit ==
  /\ InitStore(LifeConfigs, MaxLifeStores, MaxTicks, {FALSE}, {{}})
  /\ InitRender({FALSE})
  /\ UrlMode
  /\ tool = NoTool
  /\ tm = NoManager

LifeNext ==
  \/ Initialize /\ UNCHANGED <<tool, tm>>
  \/ ServeDirMade /\ UNCHANGED <<tool, tm>>
  \/ ServeDirRead /\ UNCHANGED <<tool, tm>>
  \/ Listening /\ UNCHANGED <<tool, tm>>
  \/ Shutdown /\ UNCHANGED <<tool, tm>>
  \/ ShutdownDone /\ UNCHANGED <<tool, tm>>
  \/ \E file \in Inputs : StoreCall("s1", file) /\ UNCHANGED <<tool, tm>>
  \/ TimerFire /\ UNCHANGED <<tool, tm>>
  \/ \E p \in {"s1", Timer} : SweepUnlinkDone(p) /\ UNCHANGED <<tool, tm>>
  \/ EnforceQuotas("s1") /\ UNCHANGED <<tool, tm>>
  \/ DiskUnlinkDone("s1") /\ UNCHANGED <<tool, tm>>
  \/ CountUnlinkDone("s1") /\ UNCHANGED <<tool, tm>>
  \/ WriteDone("s1") /\ UNCHANGED <<tool, tm>>
  \/ \E filename \in RequestFilenames :
       \E token \in RequestTokens(filename) :
         Retrieve(filename, token) /\ UNCHANGED <<tool, tm>>
  \/ Tick /\ UNCHANGED <<tool, tm>>

LifeSpec == LifeInit /\ [][LifeNext]_vars

\* the store with the effects of fs.unlink and fs.writeFile on the serve
\* directory as steps of their own, ahead of the continuations that await
\* them; the file system may fail
FsInit ==
  /\ InitStore(LifeConfigs, MaxLifeStores, 1, BOOLEAN, {{}})
  /\ InitRender({FALSE})
  /\ UrlMode
  /\ tool = NoTool
  /\ tm = NoManager

FsNext ==
  \/ Initialize /\ UNCHANGED <<tool, tm>>
  \/ ServeDirMade /\ UNCHANGED <<tool, tm>>
  \/ ServeDirRead /\ UNCHANGED <<tool, tm>>
  \/ Listening /\ UNCHANGED <<tool, tm>>
  \/ \E file \in Inputs : StoreCall("s1", file) /\ UNCHANGED <<tool, tm>>
  \/ TimerFire /\ UNCHANGED <<tool, tm>>
  \/ \E p \in {"s1", Timer} : UnlinkSettles(p) /\ UNCHANGED <<tool, tm>>
  \/ \E p \in {"s1", Timer} : SweepUnlinkDone(p) /\ UNCHANGED <<tool, tm>>
  \/ EnforceQuotas("s1") /\ UNCHANGED <<tool, tm>>
  \/ DiskUnlinkDone("s1") /\ UNCHANGED <<tool, tm>>
  \/ CountUnlinkDone("s1") /\ UNCHANGED <<tool, tm>>
  \/ WriteSettles("s1") /\ UNCHANGED <<tool, tm>>
  \/ WriteDone("s1") /\ UNCHANGED <<tool, tm>>
  \/ \E filename \in RequestFilenames :
       \E token \in RequestTokens(filename) :
         Retrieve(filename, token) /\ UNCHANGED <<tool, tm>>
  \/ Tick /\ UNCHANGED <<tool, tm>>

FsSpec == FsInit /\ [][FsNext]_vars

\* store() calls that run alone: one caller, no timer, and retrievals only
\* between two calls
AloneNext ==
  \/ Initialize /\ UNCHANGED <<tool, tm>>
  \/ ServeDirMade /\ UNCHANGED <<tool, tm>>
  \/ ServeDirRead /\ UNCHANGED <<tool, tm>>
  \/ WipeUnlinkDone /\ UNCHANGED <<tool, tm>>
  \/ Listening /\ UNCHANGED <<tool, tm>>
  \/ \E file \in Inputs : StoreCall("s1", file) /\ UNCHANGED <<tool, tm>>
  \/ SweepUnlinkDone("s1") /\ UNCHANGED <<tool, tm>>
  \/ EnforceQuotas("s1") /\ UNCHANGED <<tool, tm>>
  \/ DiskUnlinkDone("s1") /\ UNCHANGED <<tool, tm>>
  \/ CountUnlinkDone("s1") /\ UNCHANGED <<tool, tm>>
  \/ WriteDone("s1") /\ UNCHANGED <<tool, tm>>
  \/ \E filename \in RequestFilenames :
       \E token \in RequestTokens(filename) :
         ~InFlight("s1") /\ Retrieve(filename, token) /\ UNCHANGED <<tool, tm>>
  \/ Tick /\ UNCHANGED <<tool, tm>>

AloneSpec == SeqInit /\ [][AloneNext]_vars

\* create() calls on a TemplateManager that initialize() has set up
ManagerInit ==
  /\ InitStore({[maxDiskBytes |-> 3, maxFiles |-> 2, ttlSeconds |-> 1]}, 0, 0,
               {FALSE}, {{}})
  /\ InitRender({FALSE})
  /\ UrlMode
  /\ tool = NoTool
  /\ tm = Initialized

ManagerNext ==
  \/ \E c \in Creators, params \in CreateParams :
       Create(c, params)
  \/ \E c \in Creators : SaveDone(c)
  \/ \E c \in Creators : PrepareDone(c)

ManagerSpec == ManagerInit /\ [][ManagerNext]_vars

\* store() calls in flight together with the timer's sweeps, for the limits
\* at which the eviction loops run dry; every awaited file-system call of a
\* store() call settles
TermConfigs ==
  [maxDiskBytes : MaxDiskChoices, maxFiles : {0, 1}, ttlSeconds : {0}]

TermInit ==
  /\ InitStore(TermConfigs, MaxStores, 1, {FALSE}, {{}})
  /\ InitRender({FALSE})
  /\ UrlMode
  /\ tool = NoTool
  /\ tm = NoManager

TermNext ==
  \/ Initialize /\ UNCHANGED <<tool, tm>>
  \/ ServeDirMade /\ UNCHANGED <<tool, tm>>
  \/ ServeDirRead /\ UNCHANGED <<tool, tm>>
  \/ Listening /\ UNCHANGED <<tool, tm>>
  \/ \E p \in Callers, file \in Inputs : StoreCall(p, file) /\ UNCHANGED <<tool, tm>>
  \/ TimerFire /\ UNCHANGED <<tool, tm>>
  \/ \E p \in Procs : SweepUnlinkDone(p) /\ UNCHANGED <<tool, tm>>
  \/ \E p \in Callers : EnforceQuotas(p) /\ UNCHANGED <<tool, tm>>
  \/ \E p \in Callers : DiskUnlinkDone(p) /\ UNCHANGED <<tool, tm>>
  \/ \E p \in Callers : CountUnlinkDone(p) /\ UNCHANGED <<tool, tm>>
  \/ \E p \in Callers : WriteDone(p) /\ UNCHANGED <<tool, tm>>
  \/ Tick /\ UNCHANGED <<tool, tm>>

StoreFairness ==
  \A p \in Callers :
    /\ WF_vars(SweepUnlinkDone(p) /\ UNCHANGED <<tool, tm>>)
    /\ WF_vars(EnforceQuotas(p) /\ UNCHANGED <<tool, tm>>)
    /\ WF_vars(DiskUnlinkDone(p) /\ UNCHANGED <<tool, tm>>)
    /\ WF_vars(CountUnlinkDone(p) /\ UNCHANGED <<tool, tm>>)
    /\ WF_vars(WriteDone(p) /\ UNCHANGED <<tool, tm>>)

TermSpec == TermInit /\ [][TermNext]_vars /\ StoreFairness

\* LifeSpec with a sweep timer that keeps firing while its interval is set,
\* and whose unlink calls settle; nothing is asked of the store() calls
SweepFairSpec ==
  /\ LifeSpec
  /\ WF_vars(TimerFire /\ UNCHANGED <<tool, tm>>)
  /\ WF_vars(SweepUnlinkDone(Timer) /\ UNCHANGED <<tool, tm>>)

\* one render call at a time.  Every file-system call and every call of the
\* bundler and of selectComposition settles; renderMedia / renderStill is
\* left free never to settle
StallNext ==
  \/ \E code \in TemplateCodes :
       RenderStart("j1", DefaultParams, code) /\ UNCHANGED <<tool, tm>>
  \/ MkdirDone("j1") /\ UNCHANGED <<tool, tm>>
  \/ AccessDone("j1") /\ UNCHANGED <<tool, tm>>
  \/ ScaffoldDone("j1") /\ UNCHANGED <<tool, tm>>
  \/ CompileDone("j1") /\ UNCHANGED <<tool, tm>>
  \/ CatchRmProject("j1") /\ UNCHANGED <<tool, tm>>
  \/ CatchRmBundle("j1") /\ UNCHANGED <<tool, tm>>
  \/ SelectDone("j1") /\ UNCHANGED <<tool, tm>>
  \/ RenderDone("j1") /\ UNCHANGED <<tool, tm>>
  \/ Release("j1") /\ UNCHANGED <<tool, tm>>
  \/ MockWriteDone("j1") /\ UNCHANGED <<tool, tm>>
  \/ ReadDone("j1") /\ UNCHANGED <<tool, tm>>
  \/ Finally("j1") /\ UNCHANGED <<tool, tm>>

StallFairness ==
  /\ WF_vars(MkdirDone("j1") /\ UNCHANGED <<tool, tm>>)
  /\ WF_vars(AccessDone("j1") /\ UNCHANGED <<tool, tm>>)
  /\ WF_vars(ScaffoldDone("j1") /\ UNCHANGED <<tool, tm>>)
  /\ WF_vars(CompileDone("j1") /\ UNCHANGED <<tool, tm>>)
  /\ WF_vars(CatchRmProject("j1") /\ UNCHANGED <<tool, tm>>)
  /\ WF_vars(CatchRmBundle("j1") /\ UNCHANGED <<tool, tm>>)
  /\ WF_vars(SelectDone("j1") /\ UNCHANGED <<tool, tm>>)
  /\ WF_vars(Release("j1") /\ UNCHANGED <<tool, tm>>)
  /\ WF_vars(MockWriteDone("j1") /\ UNCHANGED <<tool, tm>>)
  /\ WF_vars(ReadDone("j1") /\ UNCHANGED <<tool, tm>>)
  /\ WF_vars(Finally("j1") /\ UNCHANGED <<tool, tm>>)

StallSpec == RenderInit /\ [][StallNext]_vars /\ StallFairness

(***************************************************************************)
(* The artifact store's claims                                             *)
(***************************************************************************)
QuotaHolds ==
  /\ TotalSize(files) <= cfg.maxDiskBytes
  /\ Len(files) <= cfg.maxFiles

\* the entries of the table a request for this filename is about
Named(filename) == {files[i] : i \in {j \in 1..Len(files) : files[j].filename = filename}}

\* the ids store() has returned a URL for
IssuedIds == {i \in DOMAIN issued : issued[i] # NotIssued}

\* C1: when store() calls follow one another, the table is within both
\* quotas each time a call has returned or thrown, for every configured
\* maxDiskBytes >= 0 and maxFiles >= 0.
C1_QuotaAfterEachStore ==
  (ready /\ out.kind = "store") => QuotaHolds

\* C2: the table is within both quotas in every reachable state, also while
\* store() calls of concurrent requests interleave at their awaits.  Stated
\* for maxFiles >= 1, where calls that follow one another do keep the quotas.
C2_QuotaAtAllTimes ==
  cfg.maxFiles >= 1 => QuotaHolds

\* C3: an entry that store() evicts for quota has, at the moment it is
\* removed from the table, the least lastAccessedAt of the table's entries:
\* no entry retrieved more recently than another is evicted while that other
\* one remains.
C3_EvictsLeastRecentlyAccessed ==
  [][\A p \in Callers :
       ((DiskUnlinkDone(p) \/ CountUnlinkDone(p)) /\ st[p].lru.id \in Ids(files))
         => \A i \in 1..Len(files) :
              GetEntry(files, st[p].lru.id).lastAccessedAt
                <= files[i].lastAccessedAt]_vars

\* C7 as claimed: every retrieval with the right token made after expiresAt
\* answers 410, whatever store() calls and sweeps ran in between.
C7_ExpiredAlwaysGone ==
  out.kind = "http" =>
    \A i \in IssuedIds :
      (/\ out.filename = issued[i].filename
       /\ out.token = issued[i].token
       /\ now > issued[i].expiresAt) => out.status = 410

\* C7 as amended: a stored file is served (200) by a retrieval with its token
\* made right after store() returns; a retrieval with the right token made
\* after expiresAt never answers 200: it answers 410 while the entry is still
\* in the table and 404 once a sweep or an eviction has removed it.
C7_ExpiredNeverServed ==
  /\ (out.kind = "store" /\ out.result = "ok") =>
       /\ out.id \in Ids(files)
       /\ now <= GetEntry(files, out.id).expiresAt
       /\ GetEntry(files, out.id).token = issued[out.id].token
       /\ GetEntry(files, out.id).filename = issued[out.id].filename
  /\ out.kind = "http" =>
       \A i \in IssuedIds :
         (out.filename = issued[i].filename /\ out.token = issued[i].token) =>
           IF i \notin Ids(files) THEN out.status = 404
           ELSE IF now > issued[i].expiresAt THEN out.status = 410
           ELSE out.status = 200

C7_Witness ==
  /\ out.kind = "http"
  /\ out.status = 404
  /\ \E i \in IssuedIds :
       /\ out.filename = issued[i].filename
       /\ out.token = issued[i].token
       /\ now > issued[i].expiresAt

\* C8: a retrieval answers 404 when no entry has the filename; 403 when one
\* has and the token differs, expired or not; 410 when the token matches and
\* now > expiresAt; and otherwise 200 with the entry's MIME type.
C8_RetrievalPriority ==
  out.kind = "http" =>
    /\ Named(out.filename) = {} => out.status = 404
    /\ \A e \in Named(out.filename) :
         /\ e.token # out.token => out.status = 403
         /\ (e.token = out.token /\ now > e.expiresAt) => out.status = 410
         /\ (e.token = out.token /\ now <= e.expiresAt) =>
              (out.status = 200 /\ out.contentType = e.mimeType)

C8_Witness ==
  /\ out.kind = "http"
  /\ out.status = 403
  /\ \E e \in Named(out.filename) : now > e.expiresAt

\* C9 as claimed: no retrieval answers 200 at a time now >= expiresAt.
\* Stated for ttlSeconds >= 1, where expiresAt > createdAt.
C9_ServedOnlyBeforeExpiry ==
  (cfg.ttlSeconds >= 1 /\ out.kind = "http" /\ out.status = 200) =>
    \A e \in Named(out.filename) : now < e.expiresAt

\* C9 as amended: no retrieval answers 200 at a time now > expiresAt; an
\* entry is served while now <= expiresAt, so a request with the right token
\* arriving exactly at now = expiresAt is served.
C9_ServedUntilExpiry ==
  out.kind = "http" =>
    \A e \in Named(out.filename) :
      /\ out.status = 200 => now <= e.expiresAt
      /\ (e.token = out.token /\ now = e.expiresAt) => out.status = 200

C9_Witness ==
  /\ out.kind = "http"
  /\ out.status = 200
  /\ \E e \in Named(out.filename) : now = e.expiresAt /\ e.createdAt < now

\* C10: with maxFiles = N >= 1 and the files' sizes together within the disk
\* limit, N+1 store() calls that follow one another with no retrieval and no
\* expiry in between leave the last N files in the table, in the order
\* stored, and the first file's URL answers 404; also when the stores read
\* the same clock value.
RECURSIVE IssuedSize(_)
IssuedSize(n) == IF n = 0 THEN 0 ELSE issued[n].size + IssuedSize(n - 1)

StoredInARow(n) ==
  /\ n <= env.stores
  /\ ~InFlight("s1")
  /\ nextId = n + 1
  /\ \A i \in 1..n : i \in IssuedIds /\ now <= issued[i].expiresAt
  /\ IssuedSize(n) <= cfg.maxDiskBytes
  /\ \A i \in 1..Len(files) : files[i].lastAccessedAt = files[i].createdAt

C10_FirstStoredEvicted ==
  (cfg.maxFiles >= 1 /\ StoredInARow(cfg.maxFiles + 1)) =>
    /\ files = [i \in 1..cfg.maxFiles |-> issued[i + 1]]
    /\ (out.kind = "http" /\ out.filename = issued[1].filename) =>
         out.status = 404

C10_Witness ==
  /\ cfg.maxFiles = 2
  /\ StoredInARow(3)
  /\ issued[1].createdAt = issued[3].createdAt
  /\ out.kind = "http"
  /\ out.filename = issued[1].filename
  /\ out.token = issued[1].token
  /\ out.status = 404

(***************************************************************************)
(* The render engine's and the bundler's claims                            *)
(***************************************************************************)
\* C4: on every exit path of renderVideo / renderImage the deletion of the
\* call's working directory has been attempted when the call settles, and
\* when that deletion succeeded the working directory does not exist once
\* the call has returned or thrown
C4_WorkDirRemovedOnEveryExit ==
  \A j \in Jobs :
    Settled(j) => job[j].rmTried /\ (job[j].rmOk => j \notin workDirs)

\* a call has thrown the backend's render error and one has returned, both
\* with their working directories deleted
C4_Witness ==
  \E i, j \in Jobs :
    /\ job[i].pc = "thrown" /\ job[i].error = "render" /\ job[i].rmOk
    /\ job[j].pc = "returned" /\ job[j].rmOk
    /\ workDirs = {}

\* C5: a bundle() call made after a bundle() call with the same arguments
\* returned, the bundle directory on disk ever since, returns the same
\* bundlePath with a no-op release function and without compiling
C5_SecondBundleFromCache ==
  \A j \in Jobs :
    (job[j].bundlePath # NoPath /\ job[j].prior # NoPath) =>
      /\ job[j].bundlePath = job[j].prior
      /\ ~job[j].compiled
      /\ job[j].release = "noop"

\* a second bundle() call with the same source has returned
C5_Witness ==
  \E j \in Jobs :
    /\ job[j].pc = "select"
    /\ job[j].prior # NoPath
    /\ job[j].bundlePath = job[j].prior

\* the calls rendering from the bundle of key k
RenderingFrom(k) ==
  {i \in Jobs : job[i].pc \in {"select", "render"}
                /\ job[i].bundlePath = BundleDir(k)}

\* C6: no step of any call deletes a bundle directory that the cache table
\* records or that another call is rendering from
C6_SharedBundleNeverDeleted ==
  [][\A k \in Keys :
       (bundleDirs[k].present /\ ~bundleDirs'[k].present) =>
         (bundleCache[k] = NoPath /\ RenderingFrom(k) = {})]_vars

\* the positions of a render call that runs in mock mode
MockPcs == {"idle", "mkdir", "mock_write", "read", "finally", "returned", "thrown"}

\* the errors of the file-system calls a mock-mode render makes
MockErrors == {"none", "mkdir", "write", "read"}

\* C11: when the renderer module or the bundler module failed to load, a
\* render call runs in mock mode: it calls neither bundle() nor the renderer
\* and fails with no backend error
C11_MockWhenBackendMissing ==
  ~(engine.renderer /\ engine.bundler) =>
    \A j \in Jobs : job[j].pc \in MockPcs /\ job[j].error \in MockErrors

(***************************************************************************)
(* The artifact store's error paths                                        *)
(***************************************************************************)
\* the store() call of p, before or after the step, carries a file larger
\* than maxDiskBytes, and the step is one of that call
RejectedStep(p) ==
  /\ st'[p] # st[p]
  /\ \/ InFlight(p) /\ TooLarge(st[p].file)
     \/ st'[p].pc # "idle" /\ TooLarge(st'[p].file)

\* C13: a store() whose file is larger than maxDiskBytes throws the too-large
\* error, writes no file, inserts no entry and removes only entries that
\* have expired
C13_TooLargeRejected ==
  [][\A p \in Callers :
       RejectedStep(p) =>
         /\ st'[p].pc \in {"sweep_unlink", "swept", "idle"}
         /\ st'[p].pc = "idle" =>
              (out'.kind = "store" /\ out'.result = "too_large")
         /\ disk' \subseteq disk
         /\ Ids(files') \subseteq Ids(files)
         /\ \A i \in 1..Len(files) :
              files[i].id \notin Ids(files') => now > files[i].expiresAt]_vars

\* a too-large store() has been rejected with an unexpired entry in the table
C13_Witness ==
  /\ out.kind = "store" /\ out.result = "too_large"
  /\ \E i \in 1..Len(files) : now <= files[i].expiresAt

(***************************************************************************)
(* The bundler's error paths                                               *)
(***************************************************************************)
\* the errors bundle() throws
BundleErrors == {"Bundler not available", "scaffold", "compile"}

\* bundle() has just thrown into the render call j
BundleFailed(j) == job[j].pc = "finally" /\ job[j].error \in BundleErrors

\* C14 as claimed: after bundle() failed the cache table holds no entry for
\* its key and the call's project directory has been removed
C14_NoEntryNoProjectDir ==
  \A j \in Jobs :
    BundleFailed(j) => bundleCache[job[j].key] = NoPath /\ j \notin projDirs

\* C14: a failed bundle() throws to its caller without returning a bundle;
\* only a bundle() call that returns from a compile adds a cache entry, so
\* the failed call adds none; and the call's project directory is gone
\* unless its removal failed
C14_FailedBundleLeavesNothing ==
  /\ [](\A j \in Jobs :
          job[j].error \in BundleErrors =>
            /\ job[j].bundlePath = NoPath
            /\ job[j].pc \in {"catch_rm_project", "catch_rm_bundle",
                              "finally", "thrown"}
            /\ BundleFailed(j) =>
                 (j \notin projDirs \/ job[j].projRm = "failed"))
  /\ [][\A k \in Keys :
          (bundleCache'[k] # bundleCache[k] /\ bundleCache'[k] # NoPath) =>
            \E j \in Jobs : /\ job[j].pc = "compile" /\ job[j].key = k
                            /\ job'[j].bundlePath = bundleCache'[k]]_vars

\* a compile has failed after its project directory was created, the
\* directory has been removed and the cache table has no entry for the key
C14_Witness ==
  \E j \in Jobs :
    /\ BundleFailed(j) /\ job[j].error = "compile"
    /\ job[j].projRm = "ok" /\ j \notin projDirs
    /\ bundleCache[job[j].key] = NoPath

\* what a render call settles with when it leaves its finally block
OutcomeOf(r) == IF r.error = "none" THEN "returned" ELSE "thrown"

\* C16: whether or not the removal of the working directory or of the
\* project directory fails, the render call goes on with the error it had:
\* it returns its result when it had none and rethrows that error otherwise
C16_DeletionFailureNotSurfaced ==
  [][\A j \in Jobs :
       /\ (job[j].pc = "finally" /\ job'[j].pc # job[j].pc) =>
            (job'[j].pc = OutcomeOf(job[j]) /\ job'[j].error = job[j].error)
       /\ (job[j].pc = "release" /\ job'[j].pc # job[j].pc) =>
            /\ job'[j].error = job[j].error
            /\ job'[j].pc = IF job[j].error = "none" THEN "read" ELSE "finally"
       /\ (job[j].pc = "catch_rm_project" /\ job'[j].pc # job[j].pc) =>
            (job'[j].pc = "catch_rm_bundle" /\ job'[j].error = job[j].error)]_vars

\* a call has returned and a call has thrown the backend's render error,
\* each after the removal of its working directory failed
C16_Witness ==
  \E i, j \in Jobs :
    /\ job[i].pc = "returned" /\ job[i].rmTried /\ ~job[i].rmOk
    /\ job[j].pc = "thrown" /\ job[j].error = "render" /\ ~job[j].rmOk
    /\ {i, j} \subseteq workDirs

(***************************************************************************)
(* Mock mode                                                               *)
(***************************************************************************)
\* C19: without the renderer, two renderVideo calls that returned give equal
\* buffers exactly when their params are equal; the buffer is not empty and
\* starts with the placeholder's prefix; metadata.duration is the sum of the
\* scene durations and width, height and fps are the settings given or the
\* defaults 1920, 1080 and 30
C19_MockDeterministic ==
  \A i, j \in Jobs :
    (~engine.renderer /\ job[i].pc = "returned" /\ job[j].pc = "returned") =>
      /\ (job[i].params = job[j].params) <=>
           (job[i].result.buffer = job[j].result.buffer)
      /\ job[i].params = job[j].params => job[i].result = job[j].result
      /\ Len(job[i].result.buffer) > Len("Mock video: ")
      /\ SubSeq(job[i].result.buffer, 1, Len("Mock video: ")) = "Mock video: "
      /\ job[i].result.metadata.duration = TotalDuration(job[i].params.scenes)
      /\ LET given == job[i].params.settings
             meta == job[i].result.metadata IN
         /\ meta.width =
              IF given.width \in {Undefined, 0} THEN 1920 ELSE given.width
         /\ meta.height =
              IF given.height \in {Undefined, 0} THEN 1080 ELSE given.height
         /\ meta.fps = IF given.fps \in {Undefined, 0} THEN 30 ELSE given.fps

\* two mock renders of one two-second scene with no settings have returned:
\* duration 2, fps 30
C19_Witness ==
  /\ ~engine.renderer
  /\ \A j \in Jobs :
       /\ job[j].pc = "returned"
       /\ job[j].params = DefaultParams
       /\ job[j].result.metadata.duration = 2
       /\ job[j].result.metadata.fps = 30
       /\ job[j].result.buffer =
            "Mock video: {\"scenes\":[{\"type\":\"title\",\"duration\":2}]}"

(***************************************************************************)
(* The output handlers' lifecycle                                          *)
(***************************************************************************)
\* C15: a store() called while the handler's initialize() has not resolved
\* (not called, in progress or failed) throws the not-initialized error and
\* changes nothing: no file, no entry, no sweep or eviction started, no
\* request sent
C15_StoreBeforeInitialize ==
  [][\A file \in Inputs :
       /\ (StoreCall("s1", file) /\ st[Boot].pc # "done") =>
            /\ out'.kind = "store" /\ out'.result = "not_ready"
            /\ UNCHANGED <<files, disk, st, nextId, issued, sent>>
       /\ (RemoteStoreCall("s1", file) /\ sst[Boot].pc # "done") =>
            /\ rout'.kind = "store" /\ rout'.result = "not_ready"
            /\ rout'.requests = 0
            /\ UNCHANGED <<sent, sst, files, disk>>]_vars

\* a store() has been rejected by a StorageHandler whose probe failed
C15_Witness ==
  /\ mode = "storage"
  /\ sst[Boot].pc = "failed" /\ sh.client
  /\ rout.kind = "store" /\ rout.result = "not_ready"
  /\ sent.call = 0

\* C17: a StorageHandler.store() that passed the guard has sent one
\* tools/call request when it settles; it returns as url the text of the
\* answer's first text item, unchanged, when the answer is a JSON body with
\* no error member whose first text item has a text, and throws otherwise;
\* nothing is stored locally
C17_OneRemoteCall ==
  (rout.kind = "store" /\ rout.result # "not_ready") =>
    /\ rout.requests = 1
    /\ files = <<>> /\ disk = {}
    /\ LET content == rout.body.content
           texts == {i \in 1..Len(content) : content[i].type = "text"}
           good == /\ rout.body.error = ""
                   /\ \E i \in texts : /\ \A k \in texts : i <= k
                                       /\ content[i].text # ""
       IN /\ rout.result = "ok" <=> good
          /\ rout.result = "ok" =>
               \E i \in texts : /\ \A k \in texts : i <= k
                                /\ rout.url = content[i].text
          /\ rout.result # "ok" => (rout.result = "error" /\ rout.url = "")

\* a store() has returned the URL of an answer whose text item comes second
C17_Witness ==
  /\ rout.kind = "store" /\ rout.result = "ok"
  /\ rout.url = "https://s/b"
  /\ sent.call = 1

\* C18: StorageHandler.initialize() started with no endpoint or no API key
\* fails without a request; otherwise it sends one probe and resolves
\* exactly when the probe is healthy; ready is true exactly when
\* initialize() has resolved, and after a failed initialize() every store()
\* is rejected
C18_StorageInitialize ==
  mode = "storage" =>
    /\ (sconf.endpoint = "" \/ sconf.apiKey = "") =>
         (sst[Boot].pc \in {"idle", "failed"} /\ sent.list = 0 /\ ~sh.client)
    /\ sh.ready <=> sst[Boot].pc = "done"
    /\ sst[Boot].pc = "done" => (sst[Boot].healthy /\ sent.list = 1)
    /\ sst[Boot].pc = "failed" =>
         /\ sh.error # ""
         /\ sh.client => (~sst[Boot].healthy /\ sent.list = 1)
         /\ sent.call = 0
         /\ rout.kind = "store" => rout.result = "not_ready"

\* the probe has failed and a store() has been rejected
C18_Witness ==
  /\ mode = "storage"
  /\ sst[Boot].pc = "failed" /\ sent.list = 1
  /\ sh.error = "Cannot connect to storage service"
  /\ rout.kind = "store"

\* C20: once UrlHandler.initialize() has resolved, no file that was in the
\* serve directory before the call is left there
C20_InitializeWipes ==
  (mode = "url" /\ st[Boot].pc = "done") => disk \cap PreExisting = {}

(***************************************************************************)
(* The tool-call handler's claims                                          *)
(***************************************************************************)
StartsWith(text, prefix) ==
  Len(text) >= Len(prefix) /\ SubSeq(text, 1, Len(prefix)) = prefix

\* the render call of the request returned its result
RenderReturned == job["j1"].pc = "returned"

\* the store() call of the request resolves in this step
StoreResolves ==
  IF mode = "url"
  THEN out'.kind = "store" /\ out'.call = "s1" /\ out'.result = "ok"
  ELSE rout'.kind = "store" /\ rout'.call = "s1" /\ rout'.result = "ok"

\* the URL store() resolves with in this step
ResolvedUrl == IF mode = "url" THEN UrlOf(issued'[out'.id]) ELSE rout'.url

\* the step in which the handler of a render tool call returns
Answers == tool.pc \in {"render", "store"} /\ tool'.pc = "answered"

\* C12: the handler of a remotion_render_video / remotion_render_image call
\* always returns a result.  When the render returned and store() resolved,
\* the result has no isError and its text starts with the URL store()
\* resolved with; in every other case (the render threw, or store() threw)
\* the result has isError = true and the text "Error: " followed by a
\* message.  store() is in flight only for a request whose render returned,
\* and the step that catches a failed render calls nothing of the output
\* handler.
C12_ErrorResultOrUrl ==
  /\ [](InFlight("s1") \/ sst["s1"].pc # "idle"
          => tool.pc = "store" /\ RenderReturned)
  /\ [][/\ Answers =>
            IF RenderReturned /\ StoreResolves
            THEN /\ ~tool'.isError
                 /\ StartsWith(tool'.text, ResolvedUrl)
            ELSE /\ tool'.isError
                 /\ StartsWith(tool'.text, "Error: ")
                 /\ Len(tool'.text) > Len("Error: ")
        /\ tool.pc = "render" /\ tool'.pc # "render" /\ ~RenderReturned
             => UNCHANGED <<storeVars, remoteVars>>]_vars

\* a render tool call was answered with a URL and the summary of a render
\* that ran in mock mode
C12_Witness ==
  /\ tool.pc = "answered"
  /\ tool.name \in RenderTools
  /\ ~tool.isError
  /\ RenderReturned
  /\ ~engine.renderer
  /\ Len(tool.text) > Len("http://localhost/files/")

(***************************************************************************)
(* The artifact store's entries and sweeps                                 *)
(***************************************************************************)
\* C21: every FileEntry store() creates has expiresAt > createdAt, for every
\* ttlSeconds loadConfig can produce from URL_TTL_SECONDS
C21_ExpiresAfterCreated ==
  cfg.ttlSeconds \in LoadableTtls
    => \A i \in IssuedIds : issued[i].expiresAt > issued[i].createdAt

(***************************************************************************)
(* Render calls in flight together                                         *)
(***************************************************************************)
\* what the output file of a call holds once it is written
WrittenBy(j) == IF engine.renderer THEN Rendered ELSE MockData(job[j].params)

\* C22: the working directories of the render calls in flight are distinct,
\* one per call.  A step of one call creates, writes and deletes nothing but
\* its own working directory and output file, so the directory and output
\* of every other call are as they were; a call that has written its output
\* finds its directory and that output there until its own cleanup.
C22_OwnWorkingDirectory ==
  /\ [](\A j \in Jobs :
          job[j].pc \in {"release", "read"} /\ job[j].error = "none"
            => j \in workDirs /\ outputs[j] = WrittenBy(j))
  /\ [][\A j \in Jobs :
          job'[j].pc # job[j].pc
            => \A i \in Jobs \ {j} :
                 /\ outputs'[i] = outputs[i]
                 /\ (i \in workDirs') = (i \in workDirs)]_vars

\* one call has returned and its working directory is deleted, while the
\* other is about to read the output it wrote
C22_Witness ==
  /\ job["j2"].pc = "returned"
  /\ job["j2"].rmOk
  /\ "j2" \notin workDirs
  /\ job["j1"].pc = "read"
  /\ "j1" \in workDirs
  /\ outputs["j1"] = Rendered

\* the sweep interval may fire
SweepMayBegin == ENABLED TimerFire

\* C23: a background sweep begins only when initialize() has completed, the
\* HTTP server listening, and shutdown() has not been called: none before
\* the server listens, none once shutdown() has been called
C23_SweepOnlyWhileServing ==
  SweepMayBegin => ready /\ st[Boot].pc = "done" /\ st[Boot].server = "listening"

\* shutdown() has resolved with an expired entry still in the table, which
\* no background sweep will remove
C23_Witness ==
  /\ st[Boot].pc = "done"
  /\ st[Boot].server = "closed"
  /\ Expired(files, now) # <<>>
  /\ ~InFlight(Timer)

(***************************************************************************)
(* A backend render call that does not complete                            *)
(***************************************************************************)
\* C24: a render call waiting for renderMedia / renderStill is eventually
\* settled, and the removal of its working directory attempted, also when
\* the backend call never completes on its own
C24_RenderTimesOut ==
  job["j1"].pc = "render" ~> (Settled("j1") /\ job["j1"].rmTried)

(***************************************************************************)
(* The background sweep                                                    *)
(***************************************************************************)
\* the entry store() created for id i is in the table and has expired
ExpiredInTable(i) ==
  /\ i \in DOMAIN issued
  /\ i \in Ids(files)
  /\ now > issued[i].expiresAt

\* neither the entry nor its file is left
Gone(i) == i \notin Ids(files) /\ i \notin disk

Recorded(j) ==
  /\ job[j].release = "project"
  /\ job[j].pc \in {"select", "render", "release"}

\* C26: two bundle() calls for one key that both missed the cache do not
\* wait for one another.  A call that has missed goes on to the backend
\* compile once its project is written, also when the other call has
\* recorded its result meanwhile; a compile that succeeds is given
\* bundle-<key> and records it, so that two calls that have both compiled
\* hold the same bundle path and the cache holds that one path for the key.
C26_BothCompileOneEntry ==
  /\ [](\A j \in Jobs : \A i \in Jobs \ {j} :
          Recorded(j) /\ Recorded(i) /\ job[j].key = job[i].key
            => /\ job[j].bundlePath = BundleDir(job[j].key)
               /\ job[i].bundlePath = job[j].bundlePath
               /\ bundleCache[job[j].key] = BundleDir(job[j].key))
  /\ [][\A j \in Jobs :
          /\ job[j].pc = "scaffold" /\ job'[j].pc # "scaffold"
               => job'[j].pc \in {"compile", "catch_rm_project"}
          /\ job[j].pc = "compile" /\ job'[j].pc = "select"
               => /\ bundleCache'[job[j].key] = BundleDir(job[j].key)
                  /\ bundleDirs'[job[j].key].present]_vars

\* both calls missed the cache for the same key, both have compiled and
\* recorded the bundle
C26_Witness ==
  /\ job["j1"].key = job["j2"].key
  /\ Recorded("j1")
  /\ Recorded("j2")
  /\ bundleCache[job["j1"].key] = BundleDir(job["j1"].key)

(***************************************************************************)
(* The order of events in one render call                                  *)
(***************************************************************************)
\* the positions a call can move to position pc from
Before(pc) ==
  CASE pc = "mkdir" -> {"idle", "returned", "thrown"}
    [] pc = "access" -> {"mkdir"}
    [] pc = "scaffold" -> {"mkdir", "access"}
    [] pc = "compile" -> {"scaffold"}
    [] pc = "catch_rm_project" -> {"scaffold", "compile"}
    [] pc = "catch_rm_bundle" -> {"catch_rm_project"}
    [] pc = "select" -> {"access", "compile"}
    [] pc = "render" -> {"select"}
    [] pc = "release" -> {"select", "render"}
    [] pc = "mock_write" -> {"mkdir"}
    [] pc = "read" -> {"release", "mock_write"}
    [] pc = "finally" ->
         {"mkdir", "catch_rm_bundle", "release", "mock_write", "read"}
    [] pc \in {"returned", "thrown"} -> {"finally"}
    [] OTHER -> {}

\* C27: in one renderVideo / renderImage call the working directory is
\* created first, then the bundle is obtained, then selectComposition and
\* the render are invoked, then the bundle's release function is called,
\* then the output file is read, then the working directory is deleted.
\* While the backend is invoked the working directory exists, the call
\* holds a bundle path and the deletion of the working directory has not
\* started.
C27_OrderOfEvents ==
  /\ [](\A j \in Jobs :
          job[j].pc \in {"select", "render"}
            => /\ j \in workDirs
               /\ job[j].bundlePath # NoPath
               /\ ~job[j].rmTried)
  /\ [][\A j \in Jobs :
          job'[j].pc # job[j].pc => job[j].pc \in Before(job'[j].pc)]_vars

\* a call has gone through all of it with the renderer loaded and returned
C27_Witness ==
  /\ engine.renderer
  /\ job["j1"].pc = "returned"
  /\ job["j1"].result.buffer = Rendered
  /\ job["j1"].rmOk

(***************************************************************************)
(* What an expiry sweep removes                                            *)
(***************************************************************************)
\* the ids of a sequence of ids
Range(queue) == {queue[i] : i \in 1..Len(queue)}

\* the ids of the entries of the table with now > expiresAt
Overdue == {files[i].id : i \in {k \in 1..Len(files) : now > files[k].expiresAt}}

SweepProcs == {"s1", Timer}

\* C28: an expiry sweep, of store() or of the timer, running among store()
\* calls, evictions, retrievals and clock advances.  When it starts, the
\* entries it sets out to remove are those with now > expiresAt, all of
\* them and no other.  Each of its steps removes the one entry it is at and
\* nothing else, that entry has now > expiresAt unless it is already gone,
\* and every entry it has still to remove stays on its list; when it ends,
\* none of the entries on its list is in the table.
C28_SweepRemovesExpiredOnly ==
  [][\A p \in SweepProcs :
       /\ st[p].pc = "idle" /\ st'[p].pc = "sweep_unlink"
            => /\ Range(st'[p].queue) = Overdue
               /\ files' = files
       /\ st[p].pc = "idle" /\ st'[p].pc = "swept"
            => Overdue = {} /\ files' = files
       /\ st[p].pc = "sweep_unlink" /\ st'[p] # st[p]
            => LET id == Head(st[p].queue)
                   left == Range(Tail(st[p].queue)) \cap Ids(files')
               IN /\ Ids(files) \ Ids(files') \subseteq {id}
                  /\ id \notin Ids(files')
                  /\ id \in Ids(files) => id \in Overdue
                  /\ left # {} =>
                       /\ st'[p].pc = "sweep_unlink"
                       /\ left \subseteq Range(st'[p].queue)]_vars

\* the timer's sweep is at the last entry of its list while a store() call
\* is in flight and the table holds an entry that has not expired
C28_Witness ==
  /\ st[Timer].pc = "sweep_unlink"
  /\ Len(st[Timer].queue) = 1
  /\ InFlight("s1")
  /\ Ids(files) \ Overdue # {}
  /\ Overdue # {}

(***************************************************************************)
(* Termination of store()                                                  *)
(***************************************************************************)
\* C29: every store() call settles, whatever the table holds and whatever
\* the limits are (maxFiles = 0 and an empty table included), also with
\* another store() call and the timer's sweeps running in between: the
\* disk-size loop and the file-count loop each come to an end
C29_StoreTerminates ==
  \A p \in Callers : InFlight(p) ~> ~InFlight(p)

\* with maxFiles = 0 a store() call is in the file-count loop while the
\* other call is in flight
C29_Witness ==
  /\ cfg.maxFiles = 0
  /\ st["s1"].pc = "count_unlink"
  /\ InFlight("s2")

(***************************************************************************)
(* The settings of a render                                                *)
(***************************************************************************)
\* C30: a renderVideo call that returned reports, for each of width, height
\* and fps, the value its settings give whenever the field is given, and
\* 1920, 1080 and 30 only for a field that is not given; its MIME type is
\* that of the format given, and of mp4 only when no format is given
C30_ResolvesSettings ==
  \A j \in Jobs :
    job[j].pc = "returned" =>
      LET given == job[j].params.settings
          meta == job[j].result.metadata
          Resolved(value, default) ==
            IF value = Undefined THEN default ELSE value
          format == IF given.format = UndefinedStr THEN "mp4"
                    ELSE given.format
      IN /\ meta.width = Resolved(given.width, 1920)
         /\ meta.height = Resolved(given.height, 1080)
         /\ meta.fps = Resolved(given.fps, 30)
         /\ job[j].result.mimeType = GetMimeType(format)

(***************************************************************************)
(* The bundle a call is handed                                             *)
(***************************************************************************)
\* C31: whenever bundle() returns, on a cache hit or after its own compile,
\* the bundle directory it hands out was compiled from the source text the
\* call was given, also for two texts with the same hashCode
C31_BundleOfOwnSource ==
  [][\A j \in Jobs :
       (job[j].pc \in {"access", "compile"} /\ job'[j].pc = "select") =>
         bundleDirs'[job[j].key].source = job[j].code]_vars

(***************************************************************************)
(* Retrievals while an entry is being removed                              *)
(***************************************************************************)
\* C32: a retrieval that passes every check (status 200) is for an entry
\* whose file is still in the serve directory: while a removal has unlinked
\* the file and not yet deleted the entry, a GET does not find the entry
C32_NoHitOnUnlinkedFile ==
  (out.kind = "http" /\ out.status = 200) => out.filename[1] \in disk

(***************************************************************************)
(* Which entries a store() call evicts                                     *)
(***************************************************************************)
\* the file fits next to the entries of fs under both limits
Fits(fs, file) ==
  /\ TotalSize(fs) + file.size <= cfg.maxDiskBytes
  /\ Len(fs) < cfg.maxFiles

\* the ids of the entries of fs that no entry precedes in lastAccessedAt
Oldest(fs) ==
  {fs[i].id : i \in {k \in 1..Len(fs) :
                       \A n \in 1..Len(fs) :
                         fs[k].lastAccessedAt <= fs[n].lastAccessedAt}}

\* C33: in a store() call that runs alone with maxFiles >= 1, each eviction
\* removes an entry that is oldest by lastAccessedAt among those left after
\* the expiry sweep, and only while the file does not yet fit under both
\* limits; the call goes on to write only once it fits; when it fits right
\* after the sweep, nothing is evicted
C33_EvictsShortestLruPrefix ==
  [][(cfg.maxFiles >= 1 /\ st'["s1"] # st["s1"]) =>
       /\ (st["s1"].pc \in {"disk_unlink", "count_unlink"}) =>
            /\ ~Fits(files, st["s1"].file)
            /\ \E id \in Oldest(files) : files' = DeleteEntry(files, id)
       /\ (st["s1"].pc \in {"swept", "disk_unlink", "count_unlink"}
              /\ st'["s1"].pc = "writing") =>
            Fits(files', st["s1"].file)
       /\ (st["s1"].pc = "swept" /\ Fits(files, st["s1"].file)) =>
            (st'["s1"].pc = "writing" /\ files' = files)
       /\ (st["s1"].pc = "swept") => files' = files]_vars

\* a store() call has evicted an entry that had not expired, one that was
\* read after a later one was stored, and has kept another: it is about to
\* write
C33_Witness ==
  /\ cfg.maxFiles >= 1
  /\ st["s1"].pc = "writing"
  /\ Len(files) >= 1
  /\ \E i \in 1..(nextId - 1) :
       /\ issued[i] # NotIssued
       /\ i \notin Ids(files)
       /\ now <= issued[i].expiresAt
       /\ i > files[1].id

(***************************************************************************)
(* What a retrieval changes                                                *)
(***************************************************************************)
\* an entry with its lastAccessedAt left out
Fixed(entry) == [entry EXCEPT !.lastAccessedAt = 0]

\* C34: a retrieval answered 404, 403 or 410 leaves the table as it is; one
\* answered 200 changes nothing but the lastAccessedAt of the entry it is
\* for; and in every step an entry that stays in the table keeps the
\* filename, token, size, createdAt and expiresAt it was created with
C34_ReadsChangeOnlyLastAccess ==
  [][/\ (out'.kind = "http" /\ out'.status # 200) => files' = files
     /\ (out'.kind = "http" /\ out'.status = 200) =>
          /\ Len(files') = Len(files)
          /\ \A i \in 1..Len(files) :
               /\ Fixed(files'[i]) = Fixed(files[i])
               /\ files'[i] # files[i] => files[i].filename = out'.filename
     /\ \A id \in Ids(files') :
          Fixed(GetEntry(files', id)) = Fixed(issued'[id])]_vars

\* a request with a wrong token, or one that came too late, has just been
\* turned down for an entry of the table that was stored before the clock
\* last advanced
C34_Witness ==
  /\ out.kind = "http"
  /\ out.status \in {403, 410}
  /\ FindByFilename(files, out.filename) # NoEntry
  /\ FindByFilename(files, out.filename).lastAccessedAt < now

(***************************************************************************)
(* An entry and the write of its file                                      *)
(***************************************************************************)
\* C35: the id of a write in progress is not in the table; an entry enters
\* the table only in the step in which its write has finished, with its
\* file in the serve directory; a store() call whose write failed settles
\* with the error and leaves the table as it was
C35_EntryOnlyAfterWrite ==
  [][/\ \A p \in Callers :
          st[p].pc = "writing" => st[p].id \notin Ids(files)
     /\ \A id \in Ids(files') \ Ids(files) :
          /\ id \in disk'
          /\ \E p \in Callers :
               /\ st[p].pc = "writing" /\ st[p].id = id
               /\ out' = StoreOut(p, "ok", id)
     /\ (out'.kind = "store" /\ out'.result = "write_failed") =>
          files' = files]_vars

\* the file of a store() call is in the serve directory, the call still
\* waits for fs.writeFile, and a retrieval for a name of the table has just
\* been answered
C35_Witness ==
  /\ st["s1"].pc = "writing"
  /\ st["s1"].id \in disk
  /\ out.kind = "http"
  /\ out.status = 200

(***************************************************************************)
(* The serve directory and the table                                       *)
(***************************************************************************)
\* C36: once initialize() has resolved, whenever no store() call and no
\* sweep is running, the files in the serve directory are exactly those of
\* the table's entries, also after an unlink has failed
C36_DirectoryMatchesTable ==
  (st[Boot].pc = "done" /\ \A p \in Callers \cup {Timer} : ~InFlight(p)) =>
    disk = Ids(files)

(***************************************************************************)
(* store() after shutdown()                                                *)
(***************************************************************************)
\* shutdown() has resolved
ShutDown == st[Boot].pc = "done" /\ st[Boot].server = "closed"

\* C37: a store() call made once shutdown() has resolved is rejected at
\* once, so that it adds no entry and writes no file
C37_NoStoreAfterShutdown ==
  [][(ShutDown /\ ~InFlight("s1")
        /\ (st'["s1"].pc # "idle" \/ out'.kind = "store")) =>
       (st'["s1"].pc = "idle" /\ out'.kind = "store"
          /\ out'.result = "not_ready")]_vars

(***************************************************************************)
(* Requests and the server's initialization                                *)
(***************************************************************************)
\* the output handler's initialize() has resolved
OutputReady ==
  IF mode = "url" THEN st[Boot].pc = "done" /\ ready
  ELSE sst[Boot].pc = "done" /\ sh.ready

\* a request is being handled or has been answered, a render call has been
\* made, or a store() call is in flight
Served ==
  \/ tool.pc \in {"render", "store", "answered"}
  \/ job["j1"].pc # "idle"
  \/ st["s1"].pc # "idle"
  \/ sst["s1"].pc # "idle"

\* C38: a request is handled, and renderVideo / renderImage or store()
\* called, only once run() is past both initialize() calls and the
\* connection of the transport, with the output handler ready; the handlers
\* are registered only with the output handler ready; and once an
\* initialize() has failed, run() stays failed and nothing is served
C38_ServedOnlyAfterInitialize ==
  [][/\ Served' => (tool'.pc \notin Unregistered \cup {"connect"} /\ OutputReady')
     /\ Registered' => OutputReady'
     /\ tool'.pc \in {"start", "engine_init"} => OutputBoot' = "idle"
     /\ tool.pc = "failed" => (tool'.pc = "failed" /\ ~Served')]_vars

\* in url mode the handler of a render tool call waits for store()
C38_Witness ==
  /\ tool.pc = "store"
  /\ mode = "url"
  /\ InFlight("s1")
  /\ OutputReady

(***************************************************************************)
(* TemplateManager.create() under one normalized name                      *)
(***************************************************************************)
\* C39: for each normalized name, at most one create() call returns a
\* template; and a template that is in the Map, and its file, are never
\* replaced by another create() call
C39_CreateOncePerName ==
  [][\A n \in Slugs :
       /\ tm'.returned[n] <= 1
       /\ tm.templates[n] # NoTemplate => tm'.templates[n] = tm.templates[n]
       /\ tm.templates[n] # NoTemplate => tm'.files[n] = tm.files[n]]_vars

====
